---- MODULE Spec2Model ----
(***************************************************************************)
(* A model of the copct Monroe-domain knowledge layer:                     *)
(*   - monroe_utils.py: unify, single_unify                                *)
(*   - monroe_preprocessing.py: populate_states_from_op,                   *)
(*     populate_tree_states, extract_leaves, extract_children,             *)
(*     preprocess_plan                                                     *)
(*                                                                         *)
(* Python values are represented as follows.                               *)
(*   - a symbol is a string; Python's None is the string None below;       *)
(*   - a fact, a query, an operator (name, arg1, ...) is a sequence;       *)
(*   - a fact collection held as tuple(set(...)) is a set of facts: the    *)
(*     order of that tuple is never read by the modelled code;             *)
(*   - a world state (objs, facts) is the pair <<objs, facts>>;            *)
(*   - a plan tree is a record: a leaf (name, arg1, ...) is                *)
(*     [leaf |-> TRUE, op |-> <<name, arg1, ...>>, subs |-> <<>>] and an   *)
(*     internal node (node, sub1, ...) is                                  *)
(*     [leaf |-> FALSE, op |-> node, subs |-> <<sub1, ...>>];              *)
(*     the test type(tree[0])==str reads the leaf field.                   *)
(***************************************************************************)
EXTENDS Integers, Sequences, FiniteSets, TLC

VARIABLES
    uFacts,     \* unify / single_unify: the facts argument (an iterable)
    uQueries,   \* single_unify: the *queries argument
    uPc,        \* which call has returned: "start", "unify", "single_unify"
    uMatches,   \* the set returned by unify(uFacts, uQueries[1])
    uRet,       \* the outcome of single_unify(uFacts, *uQueries)
    states,     \* populate_tree_states: the list of states threaded through
    callOp,     \* the operator of the latest populate_states_from_op call
    callLeaf,   \* whether that call was made for a leaf (base case)
    callPre,    \* the list that call was given
    callArg,    \* the content of that same list object when the call returned
    plan_tree,  \* preprocess_plan: the plan tree
    tPc,        \* preprocess_plan: "start", "populate", "done" or "raised"
    todo,       \* populate_tree_states: the subtrees still to visit, in order
    leafPre,    \* for each leaf visited, the index its pre-state had in the list
    out,        \* preprocess_plan: the sequences u, v, w returned
    actions,    \* preprocess_plan: the tuple returned by extract_leaves
    cV,         \* a causal relation's argument: the window v
    cFn,        \* the function called last, "none" before the first call
    cRet,       \* the outcome of a causes call: whether it raised, and the set
    causal_relation, \* DescriptiveKnowledgeBase: self.causal_relation
    kGrow,      \* DescriptiveKnowledgeBase: the arguments of the last grow call
    het_causes  \* the closure make_heterogenous_causes returned last: its
                \* operational_causes, and the stored set when it was made

uvars == <<uFacts, uQueries, uPc, uMatches, uRet>>
svars == <<states, callOp, callLeaf, callPre, callArg>>
tvars == <<plan_tree, tPc, todo, leafPre, out, actions>>
cvars == <<cV, cFn, cRet, causal_relation, kGrow, het_causes>>
vars == <<uvars, svars, tvars, cvars>>

None == "None"

(***************************************************************************)
(* Bounds of the model.                                                    *)
(***************************************************************************)
MaxFacts == 2       \* facts passed to unify
MaxQueries == 2     \* queries passed to single_unify
MaxLeaves == 4      \* leaves visited by populate_tree_states
MaxKids == 2        \* subtrees of a node of a plan tree
MaxWindow == 7      \* invocations of a window handed to causes
MaxCovers == 2      \* covers handed to one grow call

(***************************************************************************)
(* monroe_utils.py                                                         *)
(***************************************************************************)

\* variant: keeps the positions the query fixes instead of its wildcards
BindingConcrete(fact, query) ==
    LET idx == SelectSeq([j \in 1..Len(fact) |-> j], LAMBDA j: query[j] # None)
    IN  [k \in 1..Len(idx) |-> fact[idx[k]]]

\* tuple(fact[i] for i in range(len(fact)) if query[i] is None)
Binding(fact, query) ==
    LET idx == SelectSeq([j \in 1..Len(fact) |-> j], LAMBDA j: query[j] = None)
    IN  [k \in 1..Len(idx) |-> fact[idx[k]]]

\* the two `continue` tests of unify's loop body
Matches(fact, query) ==
    /\ Len(fact) = Len(query)
    /\ \A j \in 1..Len(fact) : query[j] \in {None, fact[j]}

\* the for loop of unify, from the i-th fact on, with the matches so far
RECURSIVE unify_loop(_, _, _, _)
unify_loop(facts, query, i, matches) ==
    IF i > Len(facts) THEN matches
    ELSE IF ~Matches(facts[i], query)
         THEN unify_loop(facts, query, i + 1, matches)
         ELSE unify_loop(facts, query, i + 1,
                         matches \cup {Binding(facts[i], query)})

unify(facts, query) == unify_loop(facts, query, 1, {})

\* variant: one None per position of the query, wildcard or not
NoneTuplePerPosition(query) == [k \in 1..Len(query) |-> None]

\* tuple(None for q in query if q is None)
NoneTuple(query) ==
    [k \in 1..Len(SelectSeq(query, LAMBDA q: q = None)) |-> None]

\* the for loop of single_unify from the i-th query on.  The outcome records
\* the value returned (ret), whether the call raised (the loop variable
\* `query` is unbound after a loop over no queries), and how many queries
\* were handed to unify (tried).
RECURSIVE single_unify_loop(_, _, _)
single_unify_loop(facts, queries, i) ==
    IF i > Len(queries)
    THEN IF Len(queries) = 0
         THEN [raised |-> TRUE, ret |-> <<>>, tried |-> 0]
         ELSE [raised |-> FALSE, ret |-> NoneTuple(queries[Len(queries)]),
               tried |-> Len(queries)]
    ELSE LET matches == unify(facts, queries[i])
         IN  IF Cardinality(matches) = 1
             THEN [raised |-> FALSE, ret |-> CHOOSE m \in matches : TRUE,
                   tried |-> i]
             ELSE single_unify_loop(facts, queries, i + 1)

\* variant: the queries are tried from the last to the first
single_unify_run_reversed(facts, queries) ==
    single_unify_loop(facts, [k \in 1..Len(queries) |-> queries[Len(queries) + 1 - k]], 1)

\* variant: a binding is returned only when a single query has a single match
single_unify_run_sole(facts, queries) ==
    LET uniq == {i \in 1..Len(queries) : Cardinality(unify(facts, queries[i])) = 1}
    IN  IF Cardinality(uniq) = 1
        THEN single_unify_loop(facts, queries, 1)
        ELSE single_unify_loop(facts, queries, Len(queries) + 1)

single_unify_run(facts, queries) == single_unify_loop(facts, queries, 1)

\* an iteration order of a Python set
RECURSIVE SetToSeq(_)
SetToSeq(S) ==
    IF S = {} THEN <<>>
    ELSE LET x == CHOOSE y \in S : TRUE IN <<x>> \o SetToSeq(S \ {x})

\* single_unify(facts, *queries) on a set of facts, as the callers use it
single_unify(facts, queries) == single_unify_run(SetToSeq(facts), queries).ret

(***************************************************************************)
(* monroe_preprocessing.py: populate_states_from_op                        *)
(*                                                                         *)
(* pre_states is a Python list that the rules assign into in place, so a   *)
(* call has two results: arg, the content of the caller's list object when *)
(* the call returns, and ret, the list returned (pre_states itself for the *)
(* rules that return pre_states, a new list for pre_states + [...]).       *)
(***************************************************************************)
Last(s) == s[Len(s)]
SetLast(s, x) == [s EXCEPT ![Len(s)] = x]

\* pre_states[s] = (objs, tuple(set(pre_states[s][1]) | extra)) for every s
AddToAll(pre_states, objs, extra) ==
    [s \in 1..Len(pre_states) |-> <<objs, pre_states[s][2] \cup extra>>]

\* variant: the first query with any match decides, one of its matches is taken
\* (len(matches) >= 1 in place of len(matches) == 1)
ResolveGuess(facts, queries) ==
    LET hit == {i \in 1..Len(queries) : unify(SetToSeq(facts), queries[i]) # {}}
    IN  IF hit = {} THEN None
        ELSE (CHOOSE b \in unify(SetToSeq(facts),
                                 queries[CHOOSE i \in hit : \A j \in hit : i <= j]) : TRUE)[1]

\* the first component of the 1-tuple returned by single_unify
Resolve(facts, queries) == single_unify(facts, queries)[1]

\* if task == '!NAVEGATE-VEHICLE'
op_navegate_vehicle(pre_states, op) ==
    LET objs == Last(pre_states)[1]
        pre_facts0 == Last(pre_states)[2]
        person == op[2]
        veh == op[3]
        loc == op[4]
        typed == AddToAll(pre_states, objs,
                          {<<"PERSON", person>>, <<"VEHICLE", veh>>})
        post_facts0 == pre_facts0 \cup {<<"ATLOC", veh, loc>>, <<"ATLOC", person, loc>>}
        vehloc == Resolve(pre_facts0, <<(<<"ATLOC", veh, None>>),
                                        (<<"ATLOC", person, None>>)>>)
        known == {<<"ATLOC", veh, vehloc>>, <<"ATLOC", person, vehloc>>}
        pre_facts == IF vehloc # None THEN pre_facts0 \cup known ELSE pre_facts0
        post_facts == IF vehloc # None THEN post_facts0 \ known ELSE post_facts0
        arg == SetLast(typed, <<objs, pre_facts>>)
    IN  [arg |-> arg, ret |-> Append(arg, <<objs, post_facts>>)]

\* if task == '!CLIMB-IN'
op_climb_in(pre_states, op) ==
    LET objs == Last(pre_states)[1]
        pre_facts0 == Last(pre_states)[2]
        obj == op[2]
        veh == op[3]
        post_facts0 == pre_facts0 \cup {<<"ATLOC", obj, veh>>}
        objloc == Resolve(pre_facts0, <<(<<"ATLOC", obj, None>>),
                                        (<<"ATLOC", veh, None>>)>>)
        pre_facts == IF objloc # None
                     THEN pre_facts0 \cup {<<"ATLOC", obj, objloc>>} ELSE pre_facts0
        post_facts == IF objloc # None
                      THEN post_facts0 \ {<<"ATLOC", obj, objloc>>} ELSE post_facts0
        arg == SetLast(pre_states, <<objs, pre_facts>>)
    IN  [arg |-> arg, ret |-> Append(arg, <<objs, post_facts>>)]

\* if task == '!CLIMB-OUT'
op_climb_out(pre_states, op) ==
    LET objs == Last(pre_states)[1]
        obj == op[2]
        veh == op[3]
        pre_facts == Last(pre_states)[2] \cup {<<"ATLOC", obj, veh>>}
        post_facts0 == pre_facts \ {<<"ATLOC", obj, veh>>}
        vehloc == Resolve(pre_facts, <<(<<"ATLOC", veh, None>>)>>)
        post_facts == IF vehloc # None
                      THEN post_facts0 \cup {<<"ATLOC", obj, vehloc>>} ELSE post_facts0
        arg == SetLast(pre_states, <<objs, pre_facts>>)
    IN  [arg |-> arg, ret |-> Append(arg, <<objs, post_facts>>)]

\* if task == '!LOAD'
op_load(pre_states, op) ==
    LET objs == Last(pre_states)[1]
        pre_facts0 == Last(pre_states)[2]
        person == op[2]
        obj == op[3]
        veh == op[4]
        typed == AddToAll(pre_states, objs, {<<"FIT-IN", obj, veh>>})
        post_facts0 == pre_facts0 \cup {<<"ATLOC", obj, veh>>}
        objloc == Resolve(pre_facts0, [k \in 1..(Len(op) - 1) |-> <<"ATLOC", op[k + 1], None>>])
        pre_facts == IF objloc # None
                     THEN pre_facts0 \cup {<<"ATLOC", op[k + 1], objloc>> : k \in 1..(Len(op) - 1)}
                     ELSE pre_facts0
        post_facts == IF objloc # None
                      THEN post_facts0 \ {<<"ATLOC", obj, objloc>>} ELSE post_facts0
        arg == SetLast(typed, <<objs, pre_facts>>)
    IN  [arg |-> arg, ret |-> Append(arg, <<objs, post_facts>>)]

\* if task == '!UNLOAD'
op_unload(pre_states, op) ==
    LET objs == Last(pre_states)[1]
        person == op[2]
        obj == op[3]
        veh == op[4]
        pre_facts1 == Last(pre_states)[2] \cup {<<"ATLOC", obj, veh>>}
        post_facts0 == pre_facts1 \ {<<"ATLOC", obj, veh>>}
        vehloc == Resolve(pre_facts1, <<(<<"ATLOC", veh, None>>),
                                        (<<"ATLOC", person, None>>)>>)
        pre_facts == IF vehloc # None
                     THEN pre_facts1 \cup {<<"ATLOC", veh, vehloc>>, <<"ATLOC", person, vehloc>>}
                     ELSE pre_facts1
        post_facts == IF vehloc # None
                      THEN post_facts0 \cup {<<"ATLOC", obj, vehloc>>} ELSE post_facts0
        arg == SetLast(pre_states, <<objs, pre_facts>>)
    IN  [arg |-> arg, ret |-> Append(arg, <<objs, post_facts>>)]

\* if task == '!TREAT'
op_treat(pre_states, op) ==
    LET objs == Last(pre_states)[1]
        pre_facts0 == Last(pre_states)[2]
        emt == op[2]
        person == op[3]
        ploc == Resolve(pre_facts0, <<(<<"ATLOC", emt, None>>),
                                      (<<"ATLOC", person, None>>)>>)
        pre_facts == IF ploc # None
                     THEN pre_facts0 \cup {<<"ATLOC", emt, ploc>>, <<"ATLOC", person, ploc>>}
                     ELSE pre_facts0
        arg == SetLast(pre_states, <<objs, pre_facts>>)
    IN  [arg |-> arg, ret |-> Append(arg, <<objs, pre_facts>>)]

\* if task == 'TREAT-IN-HOSPITAL' (the name is compared without its '!')
op_treat_in_hospital(pre_states, op) ==
    LET objs == Last(pre_states)[1]
        pre_facts == Last(pre_states)[2] \cup {<<"ATLOC", op[2], op[3]>>}
        arg == SetLast(pre_states, <<objs, pre_facts>>)
    IN  [arg |-> arg, ret |-> Append(arg, <<objs, pre_facts>>)]

\* if task == 'CLEAN-UP-HAZARD'
op_clean_up_hazard(pre_states, op) ==
    LET objs == Last(pre_states)[1]
        arg == SetLast(pre_states,
                 <<objs, Last(pre_states)[2]
                         \cup {<<"HAZARD-SERIOUSNESS", op[2], op[3], "VERY-HAZARDOUS">>}>>)
    IN  [arg |-> arg, ret |-> arg]

\* if task == 'CLEAR-WRECK'
op_clear_wreck(pre_states, op) ==
    LET objs == Last(pre_states)[1]
        arg == SetLast(pre_states,
                 <<objs, Last(pre_states)[2]
                         \cup {<<"WRECKED-VEHICLE", op[2], op[3], None>>}>>)
    IN  [arg |-> arg, ret |-> arg]

\* the names compared in the lines `if task == '...': return pre_states`, in
\* source order; the comparison at line 430, under the declare-curfew method,
\* names REMOVE-BLOCKAGE as line 422 does
PassThroughTasks ==
    {"SET-UP-SHELTER", "FIX-WATER-MAIN", "CLEAR-ROAD-HAZARD", "CLEAR-ROAD-WRECK",
     "CLEAR-ROAD-TREE", "PLOW-ROAD", "QUELL-RIOT", "PROVIDE-TEMP-HEAT",
     "FIX-POWER-LINE", "PROVIDE-MEDICAL-ATTENTION", "BLOCK-ROAD", "UNBLOCK-ROAD",
     "GET-ELECTRICITY", "REPAIR-PIPE", "OPEN-HOLE", "CLOSE-HOLE", "SET-UP-CONES",
     "TAKE-DOWN-CONES", "TOW-TO", "CLEAR-TREE", "REMOVE-BLOCKAGE",
     "REMOVE-BLOCKAGE", "GENERATE-TEMP-ELECTRICITY", "MAKE-FULL-FUEL", "ADD-FUEL",
     "REPAIR-LINE", "SHUT-OFF-POWER", "TURN-ON-POWER", "SHUT-OFF-WATER",
     "TURN-ON-WATER", "EMT-TREAT", "STABILIZE", "GET-TO", "DRIVE-TO", "GET-IN",
     "GET-OUT"}

\* if task == '<compound>': return pre_states
op_pass_through(pre_states, op) == [arg |-> pre_states, ret |-> pre_states]

\* variant: nothing is appended for an operator without a rule
op_default_nothing(pre_states, op) == [arg |-> pre_states, ret |-> pre_states]

\* return pre_states + pre_states[-1:]
op_default(pre_states, op) ==
    [arg |-> pre_states, ret |-> Append(pre_states, Last(pre_states))]

populate_states_from_op_run(pre_states, op) ==
    LET task == op[1]
    IN  CASE task = "!NAVEGATE-VEHICLE" -> op_navegate_vehicle(pre_states, op)
          [] task = "!CLIMB-IN" -> op_climb_in(pre_states, op)
          [] task = "!CLIMB-OUT" -> op_climb_out(pre_states, op)
          [] task = "!LOAD" -> op_load(pre_states, op)
          [] task = "!UNLOAD" -> op_unload(pre_states, op)
          [] task = "!TREAT" -> op_treat(pre_states, op)
          [] task = "TREAT-IN-HOSPITAL" -> op_treat_in_hospital(pre_states, op)
          [] task = "CLEAN-UP-HAZARD" -> op_clean_up_hazard(pre_states, op)
          [] task = "CLEAR-WRECK" -> op_clear_wreck(pre_states, op)
          [] task \in PassThroughTasks -> op_pass_through(pre_states, op)
          [] OTHER -> op_default(pre_states, op)

\* the list returned by populate_states_from_op(pre_states, op)
populate_states_from_op(pre_states, op) == populate_states_from_op_run(pre_states, op).ret

(***************************************************************************)
(* monroe_preprocessing.py: populate_tree_states, one call of              *)
(* populate_states_from_op per step.  The specification SpecOp visits the  *)
(* nodes of a plan tree that is chosen as the traversal goes: a leaf       *)
(* (base case) or the root of a subtree (recursive case).                  *)
(***************************************************************************)

\* the compound task names of the task model, as the (:method ...) forms
\* quoted in populate_states_from_op name them, with the number of parameters
CompoundArity ==
    [n \in {"SET-UP-SHELTER", "QUELL-RIOT", "PROVIDE-TEMP-HEAT", "FIX-POWER-LINE",
            "PROVIDE-MEDICAL-ATTENTION", "GET-ELECTRICITY", "CLEAR-TREE",
            "REMOVE-BLOCKAGE", "DECLARE-CURFEW", "GENERATE-TEMP-ELECTRICITY",
            "MAKE-FULL-FUEL", "EMT-TREAT", "STABILIZE"} |-> 1]
    @@
    [n \in {"FIX-WATER-MAIN", "CLEAR-ROAD-HAZARD", "CLEAR-ROAD-WRECK",
            "CLEAR-ROAD-TREE", "PLOW-ROAD", "CLEAN-UP-HAZARD", "BLOCK-ROAD",
            "UNBLOCK-ROAD", "REPAIR-PIPE", "OPEN-HOLE", "CLOSE-HOLE",
            "SET-UP-CONES", "TAKE-DOWN-CONES", "CLEAR-WRECK", "TOW-TO", "ADD-FUEL",
            "REPAIR-LINE", "SHUT-OFF-POWER", "TURN-ON-POWER", "SHUT-OFF-WATER",
            "TURN-ON-WATER", "GET-TO", "GET-IN", "GET-OUT"} |-> 2]
    @@
    [n \in {"DRIVE-TO"} |-> 3]

CompoundTasks == DOMAIN CompoundArity

\* the operators of the ATLOC rules
AtlocTasks ==
    {"!NAVEGATE-VEHICLE", "!CLIMB-IN", "!CLIMB-OUT", "!LOAD", "!UNLOAD", "!TREAT"}

\* a primitive operator name begins with '!'
IsPrimitive(task) ==
    task \in AtlocTasks \cup {"!TREAT-IN-HOSPITAL", "!CALL"}

(***************************************************************************)
(* Inputs: the objects of an episode and the grounded operators visited.   *)
(***************************************************************************)
Objs == {"p1", "p2", "v1", "v2", "o1"}

\* objs of the first state: the objects of the plan, a tuple made from a set
InitialStates == << <<Objs, {}>> >>

LeafOps ==
    {<<"!NAVEGATE-VEHICLE", "p1", "v1", "l1">>,
     <<"!NAVEGATE-VEHICLE", "p2", "v2", "l2">>,
     <<"!NAVEGATE-VEHICLE", "p1", "v1", "l2">>,
     <<"!CLIMB-IN", "p1", "v1">>,
     <<"!CLIMB-OUT", "o1", "v2">>,
     <<"!LOAD", "p1", "o1", "v2">>,
     <<"!UNLOAD", "p1", "o1", "v2">>,
     <<"!TREAT", "p1", "p2">>,
     <<"!TREAT-IN-HOSPITAL", "p2", "l1">>,
     <<"!CALL", "FEMA">>,
     <<"GET-TO", "p1", "l1">>}

\* a grounded invocation of every compound task
NodeOps ==
    {<<n, "l1">> : n \in {m \in CompoundTasks : CompoundArity[m] = 1}}
    \cup {<<n, "l1", "l2">> : n \in {m \in CompoundTasks : CompoundArity[m] = 2}}
    \cup {<<n, "p1", "v1", "l1">> : n \in {m \in CompoundTasks : CompoundArity[m] = 3}}

\* the compound tasks that stand above the movement operators in a plan
MoveNodeOps ==
    {<<"GET-TO", "p1", "l1">>, <<"DRIVE-TO", "p1", "v1", "l1">>,
     <<"GET-IN", "p1", "v1">>, <<"GET-OUT", "p1", "v1">>}

NoOp == <<"">>
NoTree == [leaf |-> TRUE, op |-> NoOp, subs |-> <<>>]
NoOut == [u |-> <<>>, v |-> <<>>, w |-> <<>>]

NoRet == [raised |-> FALSE, g |-> {}]
NoGrow == [name |-> "", covers |-> <<>>]
NoHet == [base |-> "none", made_with |-> {}]
CausesIdle ==
    /\ cV = <<>>
    /\ cFn = "none"
    /\ cRet = NoRet
    /\ causal_relation = {}
    /\ kGrow = NoGrow
    /\ het_causes = NoHet

TreeIdle ==
    /\ plan_tree = NoTree
    /\ tPc = "idle"
    /\ todo = <<>>
    /\ leafPre = <<>>
    /\ out = NoOut
    /\ actions = <<>>

StatesIdle ==
    /\ states = InitialStates
    /\ callOp = NoOp
    /\ callLeaf = FALSE
    /\ callPre = <<>>
    /\ callArg = <<>>

\* populate_tree_states(states, next_tree), base case: next_tree is the bare
\* tuple op
VisitLeaf(op) ==
    /\ Len(states) <= MaxLeaves
    /\ states' = populate_states_from_op(states, op)
    /\ callOp' = op
    /\ callLeaf' = TRUE
    /\ callPre' = states
    /\ callArg' = populate_states_from_op_run(states, op).arg
    /\ UNCHANGED <<uvars, tvars, cvars>>

\* populate_tree_states(states, next_tree), recursive case: the rule of the
\* root next_tree[0] = op is applied before the subtrees are folded
VisitNode(op) ==
    /\ Len(states) <= MaxLeaves
    /\ states' = populate_states_from_op(states, op)
    /\ callOp' = op
    /\ callLeaf' = FALSE
    /\ callPre' = states
    /\ callArg' = populate_states_from_op_run(states, op).arg
    /\ UNCHANGED <<uvars, tvars, cvars>>

UnifyIdle ==
    /\ uFacts = <<>>
    /\ uQueries = <<>>
    /\ uPc = "idle"
    /\ uMatches = {}
    /\ uRet = [raised |-> FALSE, ret |-> <<>>, tried |-> 0]

OpInit == UnifyIdle /\ StatesIdle /\ TreeIdle /\ CausesIdle

OpNext ==
    \/ \E op \in LeafOps : VisitLeaf(op)
    \/ \E op \in MoveNodeOps : VisitNode(op)

SpecOp == OpInit /\ [][OpNext]_vars

(***************************************************************************)
(* monroe_preprocessing.py: the tree queries and preprocess_plan           *)
(* (SpecTree).  populate_tree_states is run one node at a time: todo holds *)
(* the subtrees that the pending `for sub in next_tree[1:]` loops have yet *)
(* to visit, innermost first.                                              *)
(***************************************************************************)
\* the sequences over S of at most n elements
SeqsUpTo(S, n) == UNION {[1..k -> S] : k \in 0..n}

Leaf(op) == [leaf |-> TRUE, op |-> op, subs |-> <<>>]
Node(op, subs) == [leaf |-> FALSE, op |-> op, subs |-> subs]

RECURSIVE Concat(_)
Concat(ss) == IF ss = <<>> THEN <<>> ELSE Head(ss) \o Concat(Tail(ss))

\* extract_leaves: reduce(lambda x,y: x+y, map(extract_leaves, tree[1:])); the
\* reduce of an empty sequence without an initial value raises TypeError
RECURSIVE extract_leaves(_)
extract_leaves(tree) ==
    IF tree.leaf
    THEN [raised |-> FALSE, val |-> <<tree.op>>]
    ELSE LET parts == [k \in 1..Len(tree.subs) |-> extract_leaves(tree.subs[k])]
         IN  IF \E k \in 1..Len(parts) : parts[k].raised
             THEN [raised |-> TRUE, val |-> <<>>]
             ELSE IF Len(parts) = 0
                  THEN [raised |-> TRUE, val |-> <<>>]
                  ELSE [raised |-> FALSE,
                        val |-> Concat([k \in 1..Len(parts) |-> parts[k].val])]

\* the static objects of monroe_static (locs, watercos, powercos)
locs == {"l1", "l2"}
\* watercos and powercos map a company to the locations it serves
watercos == [co \in {"WATERCO"} |-> {"l1"}]
powercos == [co \in {"POWERCO"} |-> {"l1", "l2"}]

\* extract_objects, before the static objects are removed
RECURSIVE all_objects(_)
all_objects(tree) ==
    IF tree.leaf
    THEN {tree.op[k] : k \in 2..Len(tree.op)}
    ELSE {tree.op[k] : k \in 2..Len(tree.op)}
         \cup UNION {all_objects(tree.subs[k]) : k \in 1..Len(tree.subs)}

\* extract_objects: every level removes the static objects from its own set
extract_objects(tree) == all_objects(tree) \ (locs \cup DOMAIN watercos \cup DOMAIN powercos)

\* extract_children
extract_children(tree) == [k \in 1..Len(tree.subs) |-> tree.subs[k].op]

\* the plan trees preprocess_plan is given: a root of any compound task over
\* leaves, and two top-level tasks over subtrees of one of their subtasks; a
\* tree is any nesting of tuples, so a CLEAN-UP-HAZARD subtree may also stand
\* beside DECLARE-CURFEW subtrees
TreeLeaves ==
    {Leaf(<<"!CALL", "FEMA">>), Leaf(<<"!NAVEGATE-VEHICLE", "p1", "v1", "l1">>)}
FlatTrees == {Node(op, kids) : op \in NodeOps, kids \in SeqsUpTo(TreeLeaves, MaxKids)}
SubTrees(op) ==
    TreeLeaves \cup {Node(op, kids) : kids \in SeqsUpTo(TreeLeaves, MaxKids)}
HazardCallTree == Node(<<"CLEAN-UP-HAZARD", "l1", "l2">>, <<Leaf(<<"!CALL", "FEMA">>)>>)
DeepTrees ==
    {Node(<<"QUELL-RIOT", "l1">>, kids) :
        kids \in SeqsUpTo(SubTrees(<<"DECLARE-CURFEW", "l1">>) \cup {HazardCallTree},
                           MaxKids)}
    \cup {Node(<<"CLEAR-ROAD-HAZARD", "l1", "l2">>, kids) :
        kids \in SeqsUpTo(SubTrees(<<"CLEAN-UP-HAZARD", "l1", "l2">>), MaxKids)}
PlanTrees == FlatTrees \cup DeepTrees

TreeInit ==
    /\ UnifyIdle
    /\ CausesIdle
    /\ plan_tree \in PlanTrees
    /\ tPc = "start"
    /\ todo = <<>>
    /\ leafPre = <<>>
    /\ out = NoOut
    /\ actions = <<>>
    /\ states = <<>>
    /\ callOp = NoOp
    /\ callLeaf = FALSE
    /\ callPre = <<>>
    /\ callArg = <<>>

\* preprocess_plan up to the call populate_tree_states([(tuple(objs), ())],
\* plan_tree); extract_leaves may raise
PreprocessStart ==
    /\ tPc = "start"
    /\ IF extract_leaves(plan_tree).raised
       THEN /\ tPc' = "raised"
            /\ UNCHANGED <<states, todo, actions>>
       ELSE /\ tPc' = "populate"
            /\ actions' = extract_leaves(plan_tree).val
            /\ states' = << <<extract_objects(plan_tree), {}>> >>
            /\ todo' = <<plan_tree>>
    /\ UNCHANGED <<plan_tree, leafPre, out, callOp, callLeaf, callPre, callArg, uvars, cvars>>

\* populate_tree_states, base case, for the next subtree to visit
TreeVisitLeaf ==
    /\ tPc = "populate"
    /\ todo # <<>>
    /\ Head(todo).leaf
    /\ states' = populate_states_from_op(states, Head(todo).op)
    /\ todo' = Tail(todo)
    /\ leafPre' = Append(leafPre, Len(states))
    /\ callOp' = Head(todo).op
    /\ callLeaf' = TRUE
    /\ callPre' = states
    /\ callArg' = populate_states_from_op_run(states, Head(todo).op).arg
    /\ UNCHANGED <<plan_tree, tPc, out, actions, uvars, cvars>>

\* populate_tree_states, recursive case: the root's rule, then its subtrees
TreeVisitNode ==
    /\ tPc = "populate"
    /\ todo # <<>>
    /\ ~Head(todo).leaf
    /\ states' = populate_states_from_op(states, Head(todo).op)
    /\ todo' = Head(todo).subs \o Tail(todo)
    /\ callOp' = Head(todo).op
    /\ callLeaf' = FALSE
    /\ callPre' = states
    /\ callArg' = populate_states_from_op_run(states, Head(todo).op).arg
    /\ UNCHANGED <<plan_tree, tPc, leafPre, out, actions, uvars, cvars>>

\* indices: the number of leaves before each subtree of the root
RECURSIVE LeafIndices(_, _)
LeafIndices(subs, k) ==
    IF k = 0 THEN 0
    ELSE LeafIndices(subs, k - 1) + Len(extract_leaves(subs[k]).val)

\* preprocess_plan after populate_tree_states has returned: u, v and w.
\* Python indexes from 0, the sequences here from 1.
PreprocessFinish ==
    /\ tPc = "populate"
    /\ todo = <<>>
    /\ LET root == plan_tree.op
           children == extract_children(plan_tree)
       IN  out' = [u |-> << <<states[1], root[1], Tail(root)>> >>,
                   v |-> [k \in 1..Len(children) |->
                            <<states[LeafIndices(plan_tree.subs, k - 1) + 1],
                              children[k][1], Tail(children[k])>>],
                   w |-> [i \in 1..Len(actions) |->
                            <<states[i], actions[i][1], Tail(actions[i])>>]]
    /\ tPc' = "done"
    /\ UNCHANGED <<plan_tree, todo, leafPre, actions, svars, uvars, cvars>>

TreeNext == PreprocessStart \/ TreeVisitLeaf \/ TreeVisitNode \/ PreprocessFinish

SpecTree == TreeInit /\ [][TreeNext]_vars

(***************************************************************************)
(* monroe_domain.py: mid_causes, top_causes, causes.                       *)
(*                                                                         *)
(* An invocation (state, taskname, parameters) is the triple               *)
(* <<state, taskname, parameters>>, a window v a sequence of invocations,  *)
(* the result g a set of invocations.  The source indexes v from 0 and     *)
(* reads params[i][k], where params[i] is v[i]'s parameter tuple behind a  *)
(* leading None: Rd(v, i, k) is that read, with the source's i and k.  A   *)
(* read past the end of a tuple raises IndexError in the source; a call    *)
(* has the outcome [raised, g].  Tests are evaluated as Python does, from  *)
(* left to right and no further than needed: their outcome is "T", "F" or  *)
(* "E" (an operand raised).                                                *)
(***************************************************************************)
\* the static lists of monroe_static
poslocs == {"l1", "l2"}
pcrews == {"PCREW1"}
sleaders == {"SLEADER1"}
food == {"FOOD1"}
\* the symbols s of the inputs with s[:3] == 'GEN' and with s[:6] == 'PERSON'
GenNamed == {"GEN1"}
PersonNamed == {"PERSON1"}

\* M: maximum length of v for all (u,v) in causal relation
M == 6

IndexError == "IndexError"
tasknames(v) == [i \in 1..Len(v) |-> v[i][2]]
Rd(v, i, k) ==
    IF i + 1 <= Len(v) /\ k <= Len(v[i + 1][3]) THEN v[i + 1][3][k] ELSE IndexError
\* states[i][1]: the facts of the state of v[i]
FactsAt(v, i) == v[i + 1][1][2]

Nothing == [raised |-> FALSE, g |-> {}]
Raised == [raised |-> TRUE, g |-> {}]
Adds(S) == [raised |-> FALSE, g |-> S]
\* variant: the candidate carries the state of the last invocation
CandOfLast(v, name, args) == <<v[Len(v)][1], name, args>>
\* (states[0], name, args)
Cand(v, name, args) == <<v[1][1], name, args>>

\* a == b == c ...
RECURSIVE Eq(_)
Eq(ops) ==
    IF ops[1] = IndexError \/ ops[2] = IndexError THEN "E"
    ELSE IF ops[1] # ops[2] THEN "F"
    ELSE IF Len(ops) = 2 THEN "T"
    ELSE Eq(Tail(ops))
\* a and b
And(a, b) == IF a = "T" THEN b ELSE a
\* x in S
In(x, S) == IF x = IndexError THEN "E" ELSE IF x \in S THEN "T" ELSE "F"

\* a matched branch: the reads of its assignments, then its test, then its adds
Rule(reads, test, S) ==
    IF IndexError \in reads THEN Raised
    ELSE IF test = "E" THEN Raised
    ELSE IF test = "T" THEN Adds(S)
    ELSE Nothing

\* the branches run one after the other: the first that raises ends the call
Combine(rs) ==
    IF \E r \in rs : r.raised THEN Raised ELSE Adds(UNION {r.g : r \in rs})

\* unify(states[i][1], query)
UnifyAt(v, i, query) == unify(SetToSeq(FactsAt(v, i)), query)
\* m.pop()[0] of a set m of one binding
Pop0(m) == (CHOOSE b \in m : TRUE)[1]

\* mid_Lnnn and top_Lnnn are the branches whose `if tasknames == ...` stands at
\* line nnn of monroe_domain.py, in source order
\* ---- clean-up-hazard (lines 53-64)
mid_L53(v) ==
    IF tasknames(v) # <<"!CALL">> THEN Nothing
    ELSE Rule({}, Eq(<<Rd(v, 0, 1), "FEMA">>),
              {Cand(v, "CLEAN-UP-HAZARD", m) :
                  m \in UnifyAt(v, 0, <<"HAZARD-SERIOUSNESS", None, None, "VERY-HAZARDOUS">>)})
mid_L57(v) ==
    IF tasknames(v) # <<"GET-TO", "!CLEAN-HAZARD">> THEN Nothing
    ELSE Rule({Rd(v, 1, 2), Rd(v, 1, 3)}, Eq(<<Rd(v, 1, 2), Rd(v, 0, 2)>>),
              {Cand(v, "CLEAN-UP-HAZARD", <<Rd(v, 1, 2), Rd(v, 1, 3)>>)})
mid_L62(v) ==
    IF tasknames(v) # <<"!CLEAN-HAZARD">> THEN Nothing
    ELSE Rule({Rd(v, 0, 2), Rd(v, 0, 3)}, "T",
              {Cand(v, "CLEAN-UP-HAZARD", <<Rd(v, 0, 2), Rd(v, 0, 3)>>)})
\* ---- block-road (lines 73-84)
mid_L73(v) ==
    IF tasknames(v) # <<"SET-UP-CONES", "GET-TO">> THEN Nothing
    ELSE Rule({Rd(v, 0, 1), Rd(v, 0, 2)}, Eq(<<Rd(v, 0, 1), Rd(v, 1, 2)>>),
              {Cand(v, "BLOCK-ROAD", <<Rd(v, 0, 1), Rd(v, 0, 2)>>)})
mid_L77(v) ==
    IF tasknames(v) # <<"GET-TO", "SET-UP-CONES">> THEN Nothing
    ELSE Rule({Rd(v, 1, 1), Rd(v, 1, 2)}, Eq(<<Rd(v, 1, 1), Rd(v, 0, 2)>>),
              {Cand(v, "BLOCK-ROAD", <<Rd(v, 1, 1), Rd(v, 1, 2)>>)})
mid_L82(v) ==
    IF tasknames(v) # <<"SET-UP-CONES">> THEN Nothing
    ELSE Rule({Rd(v, 0, 1), Rd(v, 0, 2)}, "T",
              {Cand(v, "BLOCK-ROAD", <<Rd(v, 0, 1), Rd(v, 0, 2)>>)})
\* ---- unblock-road, get-electricity (lines 92-108)
mid_L92(v) ==
    IF tasknames(v) # <<"TAKE-DOWN-CONES">> THEN Nothing
    ELSE Rule({Rd(v, 0, 1), Rd(v, 0, 2)}, "T",
              {Cand(v, "UNBLOCK-ROAD", <<Rd(v, 0, 1), Rd(v, 0, 2)>>)})
mid_L106(v) ==
    IF tasknames(v) # <<"GENERATE-TEMP-ELECTRICITY">> THEN Nothing
    ELSE Rule({Rd(v, 0, 1)}, "T", {Cand(v, "GET-ELECTRICITY", <<Rd(v, 0, 1)>>)})
\* ---- repair-pipe (lines 121-129)
mid_L121(v) ==
    IF tasknames(v) # <<"GET-TO", "SET-UP-CONES", "OPEN-HOLE", "!REPLACE-PIPE",
                        "CLOSE-HOLE", "TAKE-DOWN-CONES">> THEN Nothing
    ELSE Rule({Rd(v, 0, 2), Rd(v, 1, 2)},
              And(Eq(<<Rd(v, 0, 2), Rd(v, 1, 1), Rd(v, 2, 1), Rd(v, 3, 2),
                       Rd(v, 4, 1), Rd(v, 5, 1)>>),
                  Eq(<<Rd(v, 1, 2), Rd(v, 2, 2), Rd(v, 3, 3), Rd(v, 4, 2), Rd(v, 5, 2)>>)),
              {Cand(v, "REPAIR-PIPE", <<Rd(v, 0, 2), Rd(v, 1, 2)>>)})
mid_L126(v) ==
    IF tasknames(v) # <<"SET-UP-CONES", "OPEN-HOLE", "!REPLACE-PIPE", "CLOSE-HOLE",
                        "TAKE-DOWN-CONES">> THEN Nothing
    ELSE Rule({Rd(v, 0, 1), Rd(v, 0, 2)},
              And(Eq(<<Rd(v, 0, 1), Rd(v, 1, 1), Rd(v, 2, 2), Rd(v, 3, 1), Rd(v, 4, 1)>>),
                  Eq(<<Rd(v, 0, 2), Rd(v, 2, 3), Rd(v, 3, 2), Rd(v, 4, 2)>>)),
              {Cand(v, "REPAIR-PIPE", <<Rd(v, 0, 1), Rd(v, 0, 2)>>)})
\* ---- open-hole, close-hole (lines 138-165)
mid_L138(v) ==
    IF tasknames(v) # <<"GET-TO", "!DIG">> THEN Nothing
    ELSE Rule({Rd(v, 0, 2)}, Eq(<<Rd(v, 0, 2), Rd(v, 1, 2)>>),
              {Cand(v, "OPEN-HOLE", <<Rd(v, 0, 2), toloc>>) : toloc \in poslocs})
mid_L144(v) ==
    IF tasknames(v) # <<"!DIG">> THEN Nothing
    ELSE Rule({Rd(v, 0, 2)}, "T",
              {Cand(v, "OPEN-HOLE", <<Rd(v, 0, 2), toloc>>) : toloc \in poslocs})
mid_L156(v) ==
    IF tasknames(v) # <<"GET-TO", "!FILL-IN">> THEN Nothing
    ELSE Rule({Rd(v, 0, 2)}, Eq(<<Rd(v, 0, 2), Rd(v, 1, 2)>>),
              {Cand(v, "CLOSE-HOLE", <<Rd(v, 0, 2), toloc>>) : toloc \in poslocs})
mid_L162(v) ==
    IF tasknames(v) # <<"!FILL-IN">> THEN Nothing
    ELSE Rule({Rd(v, 0, 2)}, "T",
              {Cand(v, "CLOSE-HOLE", <<Rd(v, 0, 2), toloc>>) : toloc \in poslocs})
\* ---- set-up-cones, take-down-cones (lines 173-213)
ConesFromGetTo(v, parent) ==
    Rule({Rd(v, 0, 2)}, "T",
         {Cand(v, parent, <<Rd(v, 0, 2), toloc>>) : toloc \in poslocs})
ConesFromState(v, parent) ==
    LET m == UnifyAt(v, 0, <<"ATLOC", Rd(v, 0, 1), None>>)
    IN  Rule({Rd(v, 0, 1)}, "T",
             IF Cardinality(m) = 1
             THEN {Cand(v, parent, <<Pop0(m), toloc>>) : toloc \in poslocs}
             ELSE {Cand(v, parent, <<fromloc, toloc>>) :
                      fromloc \in poslocs, toloc \in poslocs})
mid_L173(v) ==
    IF tasknames(v) # <<"GET-TO", "!PLACE-CONES">> THEN Nothing
    ELSE ConesFromGetTo(v, "SET-UP-CONES")
mid_L178(v) ==
    IF tasknames(v) # <<"!PLACE-CONES">> THEN Nothing
    ELSE ConesFromState(v, "SET-UP-CONES")
mid_L197(v) ==
    IF tasknames(v) # <<"GET-TO", "!PICKUP-CONES">> THEN Nothing
    ELSE ConesFromGetTo(v, "TAKE-DOWN-CONES")
mid_L202(v) ==
    IF tasknames(v) # <<"!PICKUP-CONES">> THEN Nothing
    ELSE ConesFromState(v, "TAKE-DOWN-CONES")
\* ---- clear-wreck, tow-to (lines 221-249)
mid_L221(v) ==
    IF tasknames(v) # <<"TOW-TO">> THEN Nothing
    ELSE Adds({Cand(v, "CLEAR-WRECK", <<m[1], m[2]>>) :
                  m \in UnifyAt(v, 0, <<"WRECKED-VEHICLE", None, None, None>>)})
Dumps == {"BRIGHTON-DUMP", "HENRIETTA-DUMP"}
mid_L235(v) ==
    IF tasknames(v) # <<"GET-TO", "!HOOK-TO-TOW-TRUCK", "GET-TO",
                        "!UNHOOK-FROM-TOW-TRUCK">> THEN Nothing
    ELSE Rule({Rd(v, 1, 2), Rd(v, 2, 2)}, "T",
              {Cand(v, "TOW-TO", <<Rd(v, 1, 2), Rd(v, 2, 2)>>)})
mid_L239(v) ==
    IF tasknames(v) # <<"!HOOK-TO-TOW-TRUCK", "GET-TO", "!UNHOOK-FROM-TOW-TRUCK">>
    THEN Nothing
    ELSE Rule({Rd(v, 0, 2), Rd(v, 1, 2)}, "T",
              {Cand(v, "TOW-TO", <<Rd(v, 0, 2), Rd(v, 1, 2)>>)})
mid_L242(v) ==
    IF tasknames(v) # <<"GET-TO", "!HOOK-TO-TOW-TRUCK", "!UNHOOK-FROM-TOW-TRUCK">>
    THEN Nothing
    ELSE Rule({Rd(v, 1, 2)}, "T",
              {Cand(v, "TOW-TO", <<Rd(v, 1, 2), toloc>>) : toloc \in Dumps})
mid_L246(v) ==
    IF tasknames(v) # <<"!HOOK-TO-TOW-TRUCK", "!UNHOOK-FROM-TOW-TRUCK">> THEN Nothing
    ELSE Rule({Rd(v, 0, 2)}, "T",
              {Cand(v, "TOW-TO", <<Rd(v, 0, 2), toloc>>) : toloc \in Dumps})
\* ---- clear-tree (lines 259-271); line 269 compares the tuple tasknames with
\* the string '!CUT-TREE', which is never equal
mid_L259(v) ==
    IF tasknames(v) # <<"GET-TO", "!CUT-TREE", "REMOVE-BLOCKAGE">> THEN Nothing
    ELSE Rule({Rd(v, 1, 2)}, "T", {Cand(v, "CLEAR-TREE", <<Rd(v, 1, 2)>>)})
mid_L263(v) ==
    IF tasknames(v) # <<"GET-TO", "!CUT-TREE">> THEN Nothing
    ELSE Rule({Rd(v, 1, 2)}, "T", {Cand(v, "CLEAR-TREE", <<Rd(v, 1, 2)>>)})
mid_L266(v) ==
    IF tasknames(v) # <<"!CUT-TREE", "REMOVE-BLOCKAGE">> THEN Nothing
    ELSE Rule({Rd(v, 0, 2)}, "T", {Cand(v, "CLEAR-TREE", <<Rd(v, 0, 2)>>)})
\* variant: the comparison is made with the tuple ('!CUT-TREE',)
mid_L269_tuple(v) ==
    IF tasknames(v) # <<"!CUT-TREE">> THEN Nothing
    ELSE Rule({Rd(v, 0, 2)}, "T", {Cand(v, "CLEAR-TREE", <<Rd(v, 0, 2)>>)})
mid_L269(v) == Nothing
\* ---- remove-blockage (lines 280-297)
mid_L280(v) ==
    IF tasknames(v) # <<"GET-TO", "!CARRY-BLOCKAGE-OUT-OF-WAY">> THEN Nothing
    ELSE Rule({Rd(v, 1, 2)}, "T", {Cand(v, "REMOVE-BLOCKAGE", <<Rd(v, 1, 2)>>)})
mid_L284(v) ==
    IF tasknames(v) # <<"!CARRY-BLOCKAGE-OUT-OF-WAY">> THEN Nothing
    ELSE Rule({Rd(v, 0, 2)}, "T", {Cand(v, "REMOVE-BLOCKAGE", <<Rd(v, 0, 2)>>)})
mid_L293(v) ==
    IF tasknames(v) # <<"GET-TO">> THEN Nothing
    ELSE Rule({Rd(v, 0, 2)}, In(Rd(v, 0, 2), Dumps),
              {Cand(v, "REMOVE-BLOCKAGE", <<Rd(v, 0, 1)>>)})
\* ---- declare-curfew (lines 305-308)
mid_L305(v) ==
    IF tasknames(v) # <<"!CALL", "!CALL">> THEN Nothing
    ELSE Rule({Rd(v, 0, 1), Rd(v, 1, 1)}, In("EBS", {Rd(v, 0, 1), Rd(v, 1, 1)}),
              {Cand(v, "DECLARE-CURFEW", <<town>>) : town \in locs})
\* ---- generate-temp-electricity (lines 317-324)
mid_L317(v) ==
    IF tasknames(v) # <<"MAKE-FULL-FUEL", "GET-TO", "!HOOK-UP", "!TURN-ON">> THEN Nothing
    ELSE Rule({Rd(v, 1, 2)}, Eq(<<Rd(v, 1, 2), Rd(v, 2, 2)>>),
              {Cand(v, "GENERATE-TEMP-ELECTRICITY", <<Rd(v, 1, 2)>>)})
mid_L322(v) ==
    IF tasknames(v) # <<"MAKE-FULL-FUEL", "!HOOK-UP", "!TURN-ON">> THEN Nothing
    ELSE Rule({Rd(v, 1, 2)}, "T",
              {Cand(v, "GENERATE-TEMP-ELECTRICITY", <<Rd(v, 1, 2)>>)})
\* ---- make-full-fuel (lines 333-350)
mid_L333(v) ==
    IF tasknames(v) # <<"GET-TO", "ADD-FUEL", "GET-TO", "!POUR-INTO">> THEN Nothing
    ELSE Rule({Rd(v, 3, 2)}, Eq(<<Rd(v, 0, 1), Rd(v, 1, 2), Rd(v, 2, 1)>>),
              {Cand(v, "MAKE-FULL-FUEL", <<Rd(v, 3, 2)>>)})
mid_L343(v) ==
    IF tasknames(v) # <<"GET-TO", "ADD-FUEL">> THEN Nothing
    ELSE Rule({}, And(Eq(<<Rd(v, 0, 1), Rd(v, 1, 2)>>), Eq(<<Rd(v, 0, 2), Rd(v, 1, 1)>>)),
              {Cand(v, "MAKE-FULL-FUEL", <<Rd(v, 0, 1)>>)})
mid_L348(v) ==
    IF tasknames(v) # <<"ADD-FUEL">> THEN Nothing
    ELSE Rule({Rd(v, 0, 2)}, "T", {Cand(v, "MAKE-FULL-FUEL", <<Rd(v, 0, 2)>>)})
\* ---- add-fuel (lines 358-364): obj is read from whichever of the two
\* invocations has a second parameter
mid_L358(v) ==
    IF tasknames(v) \notin {<<"!PAY", "!PUMP-GAS-INTO">>, <<"!PUMP-GAS-INTO", "!PAY">>}
    THEN Nothing
    ELSE LET obj == IF Len(v[1][3]) + 1 > 2 THEN Rd(v, 0, 2) ELSE Rd(v, 1, 2)
         IN  Rule({Rd(v, 0, 1), obj}, "T", {Cand(v, "ADD-FUEL", <<Rd(v, 0, 1), obj>>)})
\* ---- repair-line (lines 376-388)
mid_L376(v) ==
    IF tasknames(v) \notin
         {<<"SHUT-OFF-POWER", "CLEAR-TREE", "!REMOVE-WIRE", "!STRING-WIRE", "TURN-ON-POWER">>,
          <<"SHUT-OFF-POWER", "!REMOVE-WIRE", "CLEAR-TREE", "!STRING-WIRE", "TURN-ON-POWER">>}
    THEN Nothing
    ELSE Rule({Rd(v, 0, 1), Rd(v, 0, 2)}, "T",
              {Cand(v, "REPAIR-LINE", <<Rd(v, 0, 1), Rd(v, 0, 2)>>)})
mid_L386(v) ==
    IF tasknames(v) # <<"SHUT-OFF-POWER", "!REMOVE-WIRE", "!STRING-WIRE", "TURN-ON-POWER">>
    THEN Nothing
    ELSE Rule({Rd(v, 0, 1), Rd(v, 0, 2)}, "T",
              {Cand(v, "REPAIR-LINE", <<Rd(v, 0, 1), Rd(v, 0, 2)>>)})
\* ---- shut-off-power, turn-on-power, shut-off-water, turn-on-water
\* (lines 396-434)
PowerFromCall(v, parent) ==
    Rule({}, In(Rd(v, 0, 1), DOMAIN powercos),
         {Cand(v, parent, <<obj, loc>>) :
             obj \in v[1][1][1] \cap pcrews, loc \in powercos[Rd(v, 0, 1)]})
WaterFromCall(v, parent) ==
    Rule({}, In(Rd(v, 0, 1), DOMAIN watercos),
         {Cand(v, parent, <<fromloc, toloc>>) :
             fromloc \in watercos[Rd(v, 0, 1)], toloc \in poslocs})
mid_L396(v) ==
    IF tasknames(v) # <<"!CALL">> THEN Nothing ELSE PowerFromCall(v, "SHUT-OFF-POWER")
mid_L408(v) ==
    IF tasknames(v) # <<"!CALL">> THEN Nothing ELSE PowerFromCall(v, "TURN-ON-POWER")
mid_L420(v) ==
    IF tasknames(v) # <<"!CALL">> THEN Nothing ELSE WaterFromCall(v, "SHUT-OFF-WATER")
mid_L431(v) ==
    IF tasknames(v) # <<"!CALL">> THEN Nothing ELSE WaterFromCall(v, "TURN-ON-WATER")
\* ---- emt-treat, stabilize (lines 442-458)
mid_L442(v) ==
    IF tasknames(v) # <<"GET-TO", "!TREAT">> THEN Nothing
    ELSE Rule({Rd(v, 1, 2)}, "T", {Cand(v, "EMT-TREAT", <<Rd(v, 1, 2)>>)})
mid_L446(v) ==
    IF tasknames(v) # <<"!TREAT">> THEN Nothing
    ELSE Rule({Rd(v, 0, 2)}, "T", {Cand(v, "EMT-TREAT", <<Rd(v, 0, 2)>>)})
mid_L456(v) ==
    IF tasknames(v) # <<"EMT-TREAT">> THEN Nothing
    ELSE Rule({Rd(v, 0, 1)}, "T", {Cand(v, "STABILIZE", <<Rd(v, 0, 1)>>)})
\* ---- get-to (lines 472-557)
mid_L472(v) ==
    IF tasknames(v) # <<"DRIVE-TO">> THEN Nothing
    ELSE Rule({Rd(v, 0, 1), Rd(v, 0, 3)}, "T",
              {Cand(v, "GET-TO", <<Rd(v, 0, 1), Rd(v, 0, 3)>>)})
mid_L485(v) ==
    IF tasknames(v) # <<"DRIVE-TO">> THEN Nothing
    ELSE Rule({Rd(v, 0, 2), Rd(v, 0, 3)}, "T",
              {Cand(v, "GET-TO", <<Rd(v, 0, 2), Rd(v, 0, 3)>>)})
\* if obj[:3]=='GEN': g.add((states[0],'GET-TO', (obj, 'TEXACO1')))
GenToTexaco(v, obj) ==
    IF obj \in GenNamed THEN {Cand(v, "GET-TO", <<obj, "TEXACO1">>)} ELSE {}
\* the destination read from a state: the single ATLOC match, else every posloc
\* variant: one of several matches is taken
PlacesFromOne(m) == IF m = {} THEN poslocs ELSE {Pop0(m)}
PlacesFrom(m) == IF Cardinality(m) = 1 THEN {Pop0(m)} ELSE poslocs
mid_L498(v) ==
    IF tasknames(v) # <<"GET-TO", "GET-IN", "GET-TO", "GET-OUT">> THEN Nothing
    ELSE LET veh == Rd(v, 0, 1)
             obj == Rd(v, 1, 1)
             place == Rd(v, 2, 2)
         IN  Rule({veh, obj, place},
                  And(Eq(<<veh, Rd(v, 1, 2), Rd(v, 2, 1), Rd(v, 3, 2)>>),
                      Eq(<<obj, Rd(v, 3, 1)>>)),
                  {Cand(v, "GET-TO", <<obj, place>>)} \cup GenToTexaco(v, obj))
mid_L505(v) ==
    IF tasknames(v) # <<"GET-IN", "GET-TO", "GET-OUT">> THEN Nothing
    ELSE LET veh == Rd(v, 0, 2)
             obj == Rd(v, 0, 1)
             place == Rd(v, 1, 2)
         IN  Rule({veh, obj, place},
                  And(Eq(<<veh, Rd(v, 0, 2), Rd(v, 1, 1), Rd(v, 2, 2)>>),
                      Eq(<<obj, Rd(v, 2, 1)>>)),
                  {Cand(v, "GET-TO", <<obj, place>>)} \cup GenToTexaco(v, obj))
mid_L511(v) ==
    IF tasknames(v) # <<"GET-TO", "GET-IN", "GET-OUT">> THEN Nothing
    ELSE LET veh == Rd(v, 1, 2)
             obj == Rd(v, 1, 1)
         IN  Rule({veh, obj},
                  And(Eq(<<veh, Rd(v, 0, 1), Rd(v, 2, 2)>>), Eq(<<obj, Rd(v, 2, 1)>>)),
                  {Cand(v, "GET-TO", <<obj, place>>) :
                      place \in PlacesFrom(UnifyAt(v, 2, <<"ATLOC", veh, None>>))}
                  \cup GenToTexaco(v, obj))
mid_L523(v) ==
    IF tasknames(v) # <<"GET-IN", "GET-OUT">> THEN Nothing
    ELSE LET veh == Rd(v, 1, 2)
             obj == Rd(v, 1, 1)
             m == UnifyAt(v, 1, <<"ATLOC", veh, None>>)
         IN  Rule({veh, obj},
                  And(Eq(<<veh, Rd(v, 0, 2)>>), Eq(<<obj, Rd(v, 0, 1)>>)),
                  {Cand(v, "GET-TO", <<obj, place>>) :
                      place \in IF Cardinality(m) = 1 THEN {Pop0(m)}
                                ELSE PlacesFrom(UnifyAt(v, 1, <<"ATLOC", obj, None>>))}
                  \cup GenToTexaco(v, obj))
mid_L549(v) ==
    IF tasknames(v) # <<"GET-TO", "STABILIZE", "GET-IN", "GET-TO", "GET-OUT">> THEN Nothing
    ELSE LET veh == Rd(v, 0, 1)
             obj == Rd(v, 1, 1)
             place == Rd(v, 3, 2)
         IN  Rule({veh, obj, place},
                  And(Eq(<<veh, Rd(v, 2, 2), Rd(v, 3, 1), Rd(v, 4, 2)>>),
                      Eq(<<obj, Rd(v, 2, 1), Rd(v, 4, 1)>>)),
                  {Cand(v, "GET-TO", <<obj, place>>)})
mid_L554(v) ==
    IF tasknames(v) # <<"STABILIZE", "GET-IN", "GET-TO", "GET-OUT">> THEN Nothing
    ELSE LET veh == Rd(v, 1, 2)
             obj == Rd(v, 0, 1)
             place == Rd(v, 2, 2)
         IN  Rule({veh, obj, place},
                  And(Eq(<<veh, Rd(v, 2, 1), Rd(v, 3, 2)>>),
                      Eq(<<obj, Rd(v, 1, 1), Rd(v, 3, 1)>>)),
                  {Cand(v, "GET-TO", <<obj, place>>)})
\* ---- drive-to, get-in, get-out (lines 565-611)
mid_L565(v) ==
    IF tasknames(v) # <<"!NAVEGATE-VEHICLE">> THEN Nothing
    ELSE Rule({Rd(v, 0, 1), Rd(v, 0, 2), Rd(v, 0, 3)}, "T",
              {Cand(v, "DRIVE-TO", <<Rd(v, 0, 1), Rd(v, 0, 2), Rd(v, 0, 3)>>)})
mid_L575(v) ==
    IF tasknames(v) # <<"!CLIMB-IN">> THEN Nothing
    ELSE Rule({Rd(v, 0, 1), Rd(v, 0, 2)}, "T",
              {Cand(v, "GET-IN", <<Rd(v, 0, 1), Rd(v, 0, 2)>>)})
mid_L584(v) ==
    IF tasknames(v) # <<"GET-TO", "!LOAD">> THEN Nothing
    ELSE Rule({Rd(v, 1, 2), Rd(v, 1, 3)}, "T",
              {Cand(v, "GET-IN", <<Rd(v, 1, 2), Rd(v, 1, 3)>>)})
mid_L588(v) ==
    IF tasknames(v) # <<"!LOAD">> THEN Nothing
    ELSE Rule({Rd(v, 0, 2), Rd(v, 0, 3)}, "T",
              {Cand(v, "GET-IN", <<Rd(v, 0, 2), Rd(v, 0, 3)>>)})
mid_L597(v) ==
    IF tasknames(v) # <<"!CLIMB-OUT">> THEN Nothing
    ELSE Rule({Rd(v, 0, 1), Rd(v, 0, 2)}, "T",
              {Cand(v, "GET-OUT", <<Rd(v, 0, 1), Rd(v, 0, 2)>>)})
mid_L605(v) ==
    IF tasknames(v) # <<"GET-TO", "!UNLOAD">> THEN Nothing
    ELSE Rule({Rd(v, 1, 2), Rd(v, 1, 3)}, "T",
              {Cand(v, "GET-OUT", <<Rd(v, 1, 2), Rd(v, 1, 3)>>)})
mid_L609(v) ==
    IF tasknames(v) # <<"!UNLOAD">> THEN Nothing
    ELSE Rule({Rd(v, 0, 2), Rd(v, 0, 3)}, "T",
              {Cand(v, "GET-OUT", <<Rd(v, 0, 2), Rd(v, 0, 3)>>)})

\* the branches of mid_causes
mid_causes_run(v) ==
    Combine({mid_L53(v), mid_L57(v), mid_L62(v), mid_L73(v), mid_L77(v), mid_L82(v),
             mid_L92(v), mid_L106(v), mid_L121(v), mid_L126(v), mid_L138(v),
             mid_L144(v), mid_L156(v), mid_L162(v), mid_L173(v), mid_L178(v),
             mid_L197(v), mid_L202(v), mid_L221(v), mid_L235(v), mid_L239(v),
             mid_L242(v), mid_L246(v), mid_L259(v), mid_L263(v), mid_L266(v),
             mid_L269(v), mid_L280(v), mid_L284(v), mid_L293(v), mid_L305(v),
             mid_L317(v), mid_L322(v), mid_L333(v), mid_L343(v), mid_L348(v),
             mid_L358(v), mid_L376(v), mid_L386(v), mid_L396(v), mid_L408(v),
             mid_L420(v), mid_L431(v), mid_L442(v), mid_L446(v), mid_L456(v),
             mid_L472(v), mid_L485(v), mid_L498(v), mid_L505(v), mid_L511(v),
             mid_L523(v), mid_L549(v), mid_L554(v), mid_L565(v), mid_L575(v),
             mid_L584(v), mid_L588(v), mid_L597(v), mid_L605(v), mid_L609(v)})

\* ---- set-up-shelter (lines 636-646)
top_L636(v) ==
    IF tasknames(v) # <<"GET-ELECTRICITY", "GET-TO", "GET-TO">> THEN Nothing
    ELSE Rule({Rd(v, 0, 1)},
              And(Eq(<<Rd(v, 0, 1), Rd(v, 1, 2), Rd(v, 2, 2)>>),
                  And(In(Rd(v, 1, 1), sleaders), In(Rd(v, 2, 1), food))),
              {Cand(v, "SET-UP-SHELTER", <<Rd(v, 0, 1)>>)})
top_L642_get_electricity(v) ==
    IF tasknames(v) # <<"GET-TO", "GET-TO">> THEN Nothing
    ELSE Rule({Rd(v, 0, 2)},
              And(Eq(<<Rd(v, 0, 2), Rd(v, 1, 2)>>),
                  And(In(Rd(v, 0, 1), sleaders), In(Rd(v, 1, 1), food))),
              {Cand(v, "GET-ELECTRICITY", <<Rd(v, 0, 2)>>)})
top_L642(v) ==
    IF tasknames(v) # <<"GET-TO", "GET-TO">> THEN Nothing
    ELSE Rule({Rd(v, 0, 2)},
              And(Eq(<<Rd(v, 0, 2), Rd(v, 1, 2)>>),
                  And(In(Rd(v, 0, 1), sleaders), In(Rd(v, 1, 1), food))),
              {Cand(v, "SET-UP-SHELTER", <<Rd(v, 0, 2)>>)})
\* ---- fix-water-main, clear-road-hazard, clear-road-wreck, clear-road-tree
\* (lines 656-698)
Bracketed(v, parent) ==
    Rule({Rd(v, 0, 1), Rd(v, 0, 2)},
         And(Eq(<<Rd(v, 0, 1), Rd(v, 1, 1), Rd(v, 2, 1)>>),
             Eq(<<Rd(v, 0, 2), Rd(v, 1, 2), Rd(v, 2, 2)>>)),
         {Cand(v, parent, <<Rd(v, 0, 1), Rd(v, 0, 2)>>)})
top_L656(v) ==
    IF tasknames(v) # <<"SHUT-OFF-WATER", "REPAIR-PIPE", "TURN-ON-WATER">> THEN Nothing
    ELSE Bracketed(v, "FIX-WATER-MAIN")
top_L669(v) ==
    IF tasknames(v) # <<"BLOCK-ROAD", "CLEAN-UP-HAZARD", "UNBLOCK-ROAD">> THEN Nothing
    ELSE Bracketed(v, "CLEAR-ROAD-HAZARD")
top_L682(v) ==
    IF tasknames(v) # <<"SET-UP-CONES", "CLEAR-WRECK", "TAKE-DOWN-CONES">> THEN Nothing
    ELSE Bracketed(v, "CLEAR-ROAD-WRECK")
top_L695(v) ==
    IF tasknames(v) # <<"SET-UP-CONES", "CLEAR-TREE", "TAKE-DOWN-CONES">> THEN Nothing
    ELSE Rule({Rd(v, 0, 1), Rd(v, 0, 2)},
              And(Eq(<<Rd(v, 0, 1), Rd(v, 2, 1)>>), Eq(<<Rd(v, 0, 2), Rd(v, 2, 2)>>)),
              {Cand(v, "CLEAR-ROAD-TREE", <<Rd(v, 0, 1), Rd(v, 0, 2)>>)})
\* ---- plow-road (lines 715-723)
top_L715(v) ==
    IF tasknames(v) # <<"GET-TO", "!NAVEGATE-SNOWPLOW", "!ENGAGE-PLOW",
                        "!NAVEGATE-SNOWPLOW", "!DISENGAGE-PLOW">> THEN Nothing
    ELSE Rule({Rd(v, 1, 3), Rd(v, 3, 3)},
              Eq(<<Rd(v, 0, 1), Rd(v, 1, 1), Rd(v, 2, 1), Rd(v, 3, 1), Rd(v, 4, 1)>>),
              {Cand(v, "PLOW-ROAD", <<Rd(v, 1, 3), Rd(v, 3, 3)>>)})
top_L720(v) ==
    IF tasknames(v) # <<"!NAVEGATE-SNOWPLOW", "!ENGAGE-PLOW", "!NAVEGATE-SNOWPLOW",
                        "!DISENGAGE-PLOW">> THEN Nothing
    ELSE Rule({Rd(v, 0, 3), Rd(v, 2, 3)},
              Eq(<<Rd(v, 0, 1), Rd(v, 1, 1), Rd(v, 2, 1), Rd(v, 3, 1)>>),
              {Cand(v, "PLOW-ROAD", <<Rd(v, 0, 3), Rd(v, 2, 3)>>)})
\* ---- quell-riot (lines 733-755)
top_L733(v) ==
    IF tasknames(v) # <<"DECLARE-CURFEW", "GET-TO", "GET-TO", "!SET-UP-BARRICADES",
                        "!SET-UP-BARRICADES">> THEN Nothing
    ELSE Rule({Rd(v, 1, 2)}, Eq(<<Rd(v, 1, 2), Rd(v, 2, 2)>>),
              {Cand(v, "QUELL-RIOT", <<Rd(v, 1, 2)>>)})
top_L738(v) ==
    IF tasknames(v) # <<"DECLARE-CURFEW", "GET-TO", "!SET-UP-BARRICADES",
                        "!SET-UP-BARRICADES">> THEN Nothing
    ELSE Rule({Rd(v, 1, 2)}, "T", {Cand(v, "QUELL-RIOT", <<Rd(v, 1, 2)>>)})
top_L741(v) ==
    IF tasknames(v) # <<"DECLARE-CURFEW", "!SET-UP-BARRICADES", "!SET-UP-BARRICADES">>
    THEN Nothing
    ELSE LET m2 == UnifyAt(v, 2, <<"ATLOC", Rd(v, 2, 1), None>>)
             m1 == UnifyAt(v, 1, <<"ATLOC", Rd(v, 1, 1), None>>)
         IN  IF Rd(v, 2, 1) = IndexError THEN Raised
             ELSE IF Cardinality(m2) = 1
                  THEN Adds({Cand(v, "QUELL-RIOT", <<Pop0(m2)>>)})
                  ELSE Rule({Rd(v, 1, 1)}, "T",
                            {Cand(v, "QUELL-RIOT", <<loc>>) : loc \in PlacesFrom(m1)})
\* ---- provide-temp-heat (lines 763-776)
top_L763(v) ==
    IF tasknames(v) # <<"GET-TO">> THEN Nothing
    ELSE Rule({Rd(v, 0, 1)}, In(Rd(v, 0, 1), PersonNamed),
              {Cand(v, "PROVIDE-TEMP-HEAT", <<Rd(v, 0, 1)>>)})
top_L773(v) ==
    IF tasknames(v) # <<"GENERATE-TEMP-ELECTRICITY", "!TURN-ON-HEAT">> THEN Nothing
    ELSE Adds({Cand(v, "PROVIDE-TEMP-HEAT", <<obj>>) : obj \in v[1][1][1] \cap PersonNamed})
\* ---- fix-power-line (lines 785-794)
top_L785(v) ==
    IF tasknames(v) # <<"GET-TO", "GET-TO", "REPAIR-LINE">> THEN Nothing
    ELSE Rule({Rd(v, 2, 2)},
              And(Eq(<<Rd(v, 2, 2), Rd(v, 1, 2)>>),
                  And(Eq(<<Rd(v, 0, 1), Rd(v, 2, 1)>>), In(Rd(v, 0, 1), pcrews))),
              {Cand(v, "FIX-POWER-LINE", <<Rd(v, 2, 2)>>)})
top_L791(v) ==
    IF tasknames(v) \notin {<<"GET-TO", "REPAIR-LINE">>, <<"REPAIR-LINE">>} THEN Nothing
    ELSE Rule({Rd(v, Len(v) - 1, 2)}, Eq(<<Rd(v, Len(v) - 1, 2), Rd(v, 0, 2)>>),
              {Cand(v, "FIX-POWER-LINE", <<Rd(v, Len(v) - 1, 2)>>)})
\* ---- provide-medical-attention (lines 803-819)
top_L803(v) ==
    IF tasknames(v) # <<"GET-TO", "!TREAT-IN-HOSPITAL">> THEN Nothing
    ELSE Rule({Rd(v, 0, 1)}, Eq(<<Rd(v, 0, 1), Rd(v, 1, 1)>>),
              {Cand(v, "PROVIDE-MEDICAL-ATTENTION", <<Rd(v, 0, 1)>>)})
top_L808(v) ==
    IF tasknames(v) # <<"!TREAT-IN-HOSPITAL">> THEN Nothing
    ELSE Rule({Rd(v, 0, 1)}, "T", {Cand(v, "PROVIDE-MEDICAL-ATTENTION", <<Rd(v, 0, 1)>>)})
top_L817(v) ==
    IF tasknames(v) # <<"EMT-TREAT">> THEN Nothing
    ELSE Rule({Rd(v, 0, 1)}, "T", {Cand(v, "PROVIDE-MEDICAL-ATTENTION", <<Rd(v, 0, 1)>>)})

\* the branches of top_causes
top_causes_run(v) ==
    Combine({top_L636(v), top_L642(v), top_L656(v), top_L669(v), top_L682(v),
             top_L695(v), top_L715(v), top_L720(v), top_L733(v), top_L738(v),
             top_L741(v), top_L763(v), top_L773(v), top_L785(v), top_L791(v),
             top_L803(v), top_L808(v), top_L817(v)})

\* causes: top_causes(v) | mid_causes(v)
causes_run(v) == Combine({top_causes_run(v), mid_causes_run(v)})

\* the sets returned, for the calls that return
mid_causes(v) == mid_causes_run(v).g
top_causes(v) == top_causes_run(v).g
causes(v) == causes_run(v).g

(***************************************************************************)
(* baxter_experiments.causes: the causal relation of the robotic imitation *)
(* learning domain.  A state is the dictionary dict(states[i]) of its      *)
(* (key, value) pairs; a KeyError, a failed unpacking or a failed int()    *)
(* ends the call with an exception.                                        *)
(***************************************************************************)
baxter_M == 3
arm_ids == <<"left", "right">>
\* int(arm)-1 as an index of arm_ids, counted from 1; 0 when int() or the
\* indexing raises
ArmIndex(arm) ==
    CASE arm = "1" -> 1
      [] arm = "2" -> 2
      [] arm = "0" -> 2
      [] arm = "-1" -> 1
      [] OTHER -> 0
\* dest_id in clear_ids: clear_ids is the string "discard-bin", so this is a
\* substring test; of the identifiers used here these are substrings
InClearIds(dest_id) == dest_id \in {"discard-bin", "bin"}
InArmIds(dest_id) == dest_id \in {arm_ids[1], arm_ids[2]}
\* sum([x**2 for (x,) in dt])
RECURSIVE SumSquares(_)
SumSquares(dt) == IF dt = <<>> THEN 0 ELSE Head(dt)[1] * Head(dt)[1] + SumSquares(Tail(dt))

\* variant: the type of the object is not looked at
baxter_L19_any_type(v) ==
    IF tasknames(v) # <<"move arm and grasp">> THEN Nothing
    ELSE LET a == v[1][3]
             s == v[1][1]
         IN  IF Len(a) # 2 THEN Raised
             ELSE IF ArmIndex(a[1]) = 0 THEN Raised
             ELSE IF a[2] \notin DOMAIN s THEN Raised
             ELSE Adds({<<s, "move unobstructed object",
                          <<a[2], arm_ids[ArmIndex(a[1])], <<>>, <<>> >> >>})
baxter_L19(v) ==
    IF tasknames(v) # <<"move arm and grasp">> THEN Nothing
    ELSE LET a == v[1][3]
             s == v[1][1]
         IN  IF Len(a) # 2 THEN Raised
             ELSE IF ArmIndex(a[1]) = 0 THEN Raised
             ELSE IF a[2] \notin DOMAIN s THEN Raised
             ELSE IF s[a[2]] \notin {"DockCase", "DockDrawer"}
                  THEN Adds({<<s, "move unobstructed object",
                               <<a[2], arm_ids[ArmIndex(a[1])], <<>>, <<>> >> >>})
                  ELSE Nothing
baxter_L25(v) ==
    IF tasknames(v) # <<"put down grasped object">> THEN Nothing
    ELSE LET a == v[1][3]
             s == v[1][1]
         IN  IF Len(a) # 4 THEN Raised
             ELSE IF "gripping" \notin DOMAIN s THEN Raised
             ELSE IF ArmIndex(a[1]) = 0 THEN Raised
             ELSE Adds({<<s, "move unobstructed object",
                          <<s["gripping"][ArmIndex(a[1])], a[2], a[3], a[4]>> >>})
baxter_L29(v) ==
    IF tasknames(v) # <<"move unobstructed object">> THEN Nothing
    ELSE LET a == v[1][3]
             s == v[1][1]
         IN  IF Len(a) # 4 THEN Raised
             ELSE IF InArmIds(a[2]) THEN Adds({<<s, "move object", a>>})
             ELSE IF a[2] \notin DOMAIN s THEN Raised
             ELSE Adds({<<s, "move object", a>>}
                       \cup IF s[a[2]] = "DockCase" \/ InClearIds(a[2])
                            THEN {<<s, "move unobstructed object to free spot",
                                    <<a[1], a[2]>> >>}
                            ELSE {})
baxter_L38(v) ==
    IF tasknames(v) # <<"move object">> THEN Nothing
    ELSE LET a == v[1][3]
             s == v[1][1]
         IN  IF Len(a) # 4 THEN Raised
             ELSE IF ~InArmIds(a[2]) /\ (a[2] = "dock-case_6" \/ InClearIds(a[2]))
                  THEN Adds({<<s, "move object to free spot", <<a[1], a[2]>> >>})
                  ELSE Nothing
baxter_L43(v) ==
    IF tasknames(v) # <<"move object to free spot">> THEN Nothing
    ELSE LET a == v[1][3]
             s == v[1][1]
         IN  IF Len(a) # 2 THEN Raised
             ELSE IF a[2] = "discard-bin"
                  THEN Adds({<<s, "discard object", <<a[1]>> >>})
                  ELSE Nothing
baxter_L48(v) ==
    IF tasknames(v) # <<"move grasped object", "release">> THEN Nothing
    ELSE LET a == v[1][3]
             s == v[1][1]
         IN  IF Len(a) # 4 THEN Raised
             ELSE IF "gripping" \notin DOMAIN s THEN Raised
             ELSE IF ArmIndex(a[1]) = 0 THEN Raised
             ELSE IF s["gripping"][ArmIndex(a[1])] \notin DOMAIN s THEN Raised
             ELSE IF s[s["gripping"][ArmIndex(a[1])]] \notin {"DockCase", "DockDrawer"}
                  THEN Adds({<<s, "put down grasped object", a>>})
                  ELSE Nothing
baxter_L54(v) ==
    IF tasknames(v) # <<"move arm and grasp", "put down grasped object">> THEN Nothing
    ELSE LET a == v[1][3]
             b == v[2][3]
             s == v[1][1]
         IN  IF Len(a) # 2 \/ Len(b) # 4 THEN Raised
             ELSE IF a[2] \notin DOMAIN s THEN Raised
             ELSE IF a[1] = b[1] /\ s[a[2]] # "DockDrawer"
                  THEN Adds({<<s, "move unobstructed object", <<a[2], b[2], b[3], b[4]>> >>})
                  ELSE Nothing
baxter_L61(v) ==
    IF tasknames(v) # <<"move arm and grasp", "move grasped object", "release">>
    THEN Nothing
    ELSE LET a == v[1][3]
             b == v[2][3]
             c == v[3][3]
             s == v[1][1]
         IN  IF Len(a) # 2 \/ Len(b) # 4 \/ Len(c) # 1 THEN Raised
             ELSE IF a[2] \notin DOMAIN s THEN Raised
             ELSE IF a[1] = b[1] /\ b[1] = c[1] /\ s[a[2]] = "DockDrawer"
                  THEN IF SumSquares(b[4]) > 1
                       THEN Adds({<<s, "open dock drawer", <<a[2], v[3][1]>> >>})
                       ELSE Adds({<<s, "close dock drawer", <<a[2]>> >>})
                  ELSE Nothing

\* the branches under len(v) == 1, 2, 3; no branch for a longer window
baxter_causes_run(v) ==
    Combine({baxter_L19(v), baxter_L25(v), baxter_L29(v), baxter_L38(v), baxter_L43(v),
             baxter_L48(v), baxter_L54(v), baxter_L61(v)})
baxter_causes(v) == baxter_causes_run(v).g

(***************************************************************************)
(* knowledge_base.DescriptiveKnowledgeBase: causal_relation is the set of  *)
(* (name, schemata) pairs; a cover is the 5-tuple (u, _, _, _, _).         *)
(***************************************************************************)
\* tuple([(sub_name, len(args)) for (_, sub_name, args) in u])
schemata(u) == [i \in 1..Len(u) |-> <<u[i][2], Len(u[i][3])>>]
\* the relation after grow(name, covers)
\* variant: grow keeps the pair of the last cover only
grow_last(rel, name, covers) ==
    IF covers = <<>> THEN rel
    ELSE rel \cup {<<name, schemata(covers[Len(covers)][1])>>}
\* variant: grow stores the pairs of this call in place of the stored set
grow_replace(rel, name, covers) ==
    {<<name, schemata(covers[i][1])>> : i \in 1..Len(covers)}
grow(rel, name, covers) ==
    rel \cup {<<name, schemata(covers[i][1])>> : i \in 1..Len(covers)}
\* tuple([a for (_, _, args) in v for a in args])
all_args(v) == Concat([i \in 1..Len(v) |-> v[i][3]])
\* variant: only the first pair with the schemata of v gives a candidate
kb_causes_first(rel, v) ==
    LET hits == {p \in rel : p[2] = schemata(v)}
    IN  IF hits = {} THEN {}
        ELSE {<<v[1][1], (CHOOSE p \in hits : TRUE)[1], all_args(v)>>}
\* DescriptiveKnowledgeBase.causes(v)
kb_causes(rel, v) ==
    {<<v[1][1], p[1], all_args(v)>> : p \in {q \in rel : q[2] = schemata(v)}}

\* operational_causes(v) of a closure made with the relation named base
operational_causes(base, v) ==
    CASE base = "baxter_causes" -> baxter_causes_run(v)
\* the stored set the closure reads: that of self when the closure is called
\* variant: the stored set as it was when the closure was made
closure_relation_made(het, rel) == het.made_with
closure_relation(het, rel) == rel
\* the closure causes(v): self.causes(v) | operational_causes(v)
\* variants: one of the two operands only
het_run_operational(het, rel, v) == operational_causes(het.base, v)
het_run_kb(het, rel, v) ==
    IF operational_causes(het.base, v).raised THEN Raised
    ELSE Adds(kb_causes(closure_relation(het, rel), v))
het_run(het, rel, v) ==
    IF operational_causes(het.base, v).raised THEN Raised
    ELSE Adds(kb_causes(closure_relation(het, rel), v)
              \cup operational_causes(het.base, v).g)

(***************************************************************************)
(* Inputs of the causal-relation specification (SpecCauses): windows over  *)
(* the task-name tuples the branches compare with and over tuples no       *)
(* branch names, with parameters over two symbols and the symbols the      *)
(* branches single out, and with one parameter tuple per task that is one  *)
(* short of the task's parameters.                                         *)
(***************************************************************************)
PrimitiveArity ==
    [n \in {"!CALL", "!PAY", "!PICKUP-CONES", "!PLACE-CONES", "!SET-UP-BARRICADES",
            "!TURN-ON", "!TURN-ON-HEAT"} |-> 1]
    @@
    [n \in {"!CARRY-BLOCKAGE-OUT-OF-WAY", "!CLIMB-IN", "!CLIMB-OUT", "!CUT-TREE",
            "!DIG", "!DISENGAGE-PLOW", "!ENGAGE-PLOW", "!FILL-IN",
            "!HOOK-TO-TOW-TRUCK", "!HOOK-UP", "!POUR-INTO", "!PUMP-GAS-INTO",
            "!REMOVE-WIRE", "!STRING-WIRE", "!TREAT", "!TREAT-IN-HOSPITAL",
            "!UNHOOK-FROM-TOW-TRUCK"} |-> 2]
    @@
    [n \in {"!CLEAN-HAZARD", "!LOAD", "!NAVEGATE-SNOWPLOW", "!NAVEGATE-VEHICLE",
            "!REPLACE-PIPE", "!UNLOAD"} |-> 3]
Arity(task) ==
    IF task \in DOMAIN CompoundArity THEN CompoundArity[task] ELSE PrimitiveArity[task]

\* the task-name tuples of the branches of mid_causes and top_causes
ShortPatterns ==
    {<<"!CALL">>, <<"!CLEAN-HAZARD">>, <<"SET-UP-CONES">>, <<"TAKE-DOWN-CONES">>,
     <<"GENERATE-TEMP-ELECTRICITY">>, <<"!DIG">>, <<"!FILL-IN">>, <<"!PLACE-CONES">>,
     <<"!PICKUP-CONES">>, <<"TOW-TO">>,
     <<"!CARRY-BLOCKAGE-OUT-OF-WAY">>, <<"GET-TO">>, <<"ADD-FUEL">>, <<"!TREAT">>,
     <<"EMT-TREAT">>, <<"DRIVE-TO">>, <<"!NAVEGATE-VEHICLE">>, <<"!CLIMB-IN">>,
     <<"!LOAD">>, <<"!CLIMB-OUT">>, <<"!UNLOAD">>, <<"REPAIR-LINE">>,
     <<"!TREAT-IN-HOSPITAL">>,
     <<"GET-TO", "!CLEAN-HAZARD">>, <<"SET-UP-CONES", "GET-TO">>,
     <<"GET-TO", "SET-UP-CONES">>, <<"GET-TO", "!DIG">>, <<"GET-TO", "!FILL-IN">>,
     <<"GET-TO", "!PLACE-CONES">>, <<"GET-TO", "!PICKUP-CONES">>,
     <<"!HOOK-TO-TOW-TRUCK", "!UNHOOK-FROM-TOW-TRUCK">>, <<"GET-TO", "!CUT-TREE">>,
     <<"!CUT-TREE", "REMOVE-BLOCKAGE">>, <<"GET-TO", "!CARRY-BLOCKAGE-OUT-OF-WAY">>,
     <<"!CALL", "!CALL">>, <<"GET-TO", "ADD-FUEL">>, <<"!PAY", "!PUMP-GAS-INTO">>,
     <<"!PUMP-GAS-INTO", "!PAY">>, <<"GET-TO", "!TREAT">>, <<"GET-IN", "GET-OUT">>,
     <<"GET-TO", "!LOAD">>, <<"GET-TO", "!UNLOAD">>, <<"GET-TO", "GET-TO">>,
     <<"GENERATE-TEMP-ELECTRICITY", "!TURN-ON-HEAT">>, <<"GET-TO", "REPAIR-LINE">>,
     <<"GET-TO", "!TREAT-IN-HOSPITAL">>}
LongPatterns ==
    {<<"GET-TO", "SET-UP-CONES", "OPEN-HOLE", "!REPLACE-PIPE", "CLOSE-HOLE",
       "TAKE-DOWN-CONES">>,
     <<"SET-UP-CONES", "OPEN-HOLE", "!REPLACE-PIPE", "CLOSE-HOLE", "TAKE-DOWN-CONES">>,
     <<"GET-TO", "!HOOK-TO-TOW-TRUCK", "GET-TO", "!UNHOOK-FROM-TOW-TRUCK">>,
     <<"!HOOK-TO-TOW-TRUCK", "GET-TO", "!UNHOOK-FROM-TOW-TRUCK">>,
     <<"GET-TO", "!HOOK-TO-TOW-TRUCK", "!UNHOOK-FROM-TOW-TRUCK">>,
     <<"GET-TO", "!CUT-TREE", "REMOVE-BLOCKAGE">>,
     <<"MAKE-FULL-FUEL", "GET-TO", "!HOOK-UP", "!TURN-ON">>,
     <<"MAKE-FULL-FUEL", "!HOOK-UP", "!TURN-ON">>,
     <<"GET-TO", "ADD-FUEL", "GET-TO", "!POUR-INTO">>,
     <<"SHUT-OFF-POWER", "CLEAR-TREE", "!REMOVE-WIRE", "!STRING-WIRE", "TURN-ON-POWER">>,
     <<"SHUT-OFF-POWER", "!REMOVE-WIRE", "CLEAR-TREE", "!STRING-WIRE", "TURN-ON-POWER">>,
     <<"SHUT-OFF-POWER", "!REMOVE-WIRE", "!STRING-WIRE", "TURN-ON-POWER">>,
     <<"GET-TO", "GET-IN", "GET-TO", "GET-OUT">>, <<"GET-IN", "GET-TO", "GET-OUT">>,
     <<"GET-TO", "GET-IN", "GET-OUT">>,
     <<"GET-TO", "STABILIZE", "GET-IN", "GET-TO", "GET-OUT">>,
     <<"STABILIZE", "GET-IN", "GET-TO", "GET-OUT">>,
     <<"GET-ELECTRICITY", "GET-TO", "GET-TO">>,
     <<"SHUT-OFF-WATER", "REPAIR-PIPE", "TURN-ON-WATER">>,
     <<"BLOCK-ROAD", "CLEAN-UP-HAZARD", "UNBLOCK-ROAD">>,
     <<"SET-UP-CONES", "CLEAR-WRECK", "TAKE-DOWN-CONES">>,
     <<"SET-UP-CONES", "CLEAR-TREE", "TAKE-DOWN-CONES">>,
     <<"GET-TO", "!NAVEGATE-SNOWPLOW", "!ENGAGE-PLOW", "!NAVEGATE-SNOWPLOW",
       "!DISENGAGE-PLOW">>,
     <<"!NAVEGATE-SNOWPLOW", "!ENGAGE-PLOW", "!NAVEGATE-SNOWPLOW", "!DISENGAGE-PLOW">>,
     <<"DECLARE-CURFEW", "GET-TO", "GET-TO", "!SET-UP-BARRICADES", "!SET-UP-BARRICADES">>,
     <<"DECLARE-CURFEW", "GET-TO", "!SET-UP-BARRICADES", "!SET-UP-BARRICADES">>,
     <<"DECLARE-CURFEW", "!SET-UP-BARRICADES", "!SET-UP-BARRICADES">>,
     <<"GET-TO", "GET-TO", "REPAIR-LINE">>}
\* task-name tuples that no branch names
\* the parent task names of the branches of top_causes (lines 636-826)
TopLevelTasks ==
    {"SET-UP-SHELTER", "FIX-WATER-MAIN", "CLEAR-ROAD-HAZARD", "CLEAR-ROAD-WRECK",
     "CLEAR-ROAD-TREE", "PLOW-ROAD", "QUELL-RIOT", "PROVIDE-TEMP-HEAT",
     "FIX-POWER-LINE", "PROVIDE-MEDICAL-ATTENTION"}
UnmatchedShort ==
    {<<"!CUT-TREE">>, <<"!SET-UP-BARRICADES">>, <<"STABILIZE">>, <<"!CALL", "GET-TO">>,
     <<"!TREAT", "GET-TO">>, <<"GET-ELECTRICITY", "GET-TO">>}
    \cup {<<t>> : t \in TopLevelTasks}
    \cup {<<"GET-TO", "SET-UP-SHELTER">>, <<"QUELL-RIOT", "!CALL">>,
          <<"PROVIDE-MEDICAL-ATTENTION", "GET-TO">>}
UnmatchedLong ==
    {<<"ADD-FUEL", "GET-TO", "!POUR-INTO">>, <<"GET-TO", "!TREAT", "!CALL">>,
     <<"SHUT-OFF-WATER", "REPAIR-PIPE", "FIX-WATER-MAIN">>,
     <<"GET-TO", "GET-TO", "SET-UP-SHELTER">>}
\* the tuple of length M that a branch names, and its extensions past M
PatternM ==
    <<"GET-TO", "SET-UP-CONES", "OPEN-HOLE", "!REPLACE-PIPE", "CLOSE-HOLE",
      "TAKE-DOWN-CONES">>
OverlongPatterns ==
    {PatternM \o [i \in 1..k |-> "GET-TO"] : k \in 1..(MaxWindow - M)}
    \cup {[i \in 1..k |-> "GET-TO"] \o PatternM : k \in 1..(MaxWindow - M)}

Gen == {"l1", "l2"}
Special(task) ==
    CASE task = "!CALL" -> {<<"FEMA">>, <<"EBS">>, <<"POWERCO">>, <<"WATERCO">>}
      [] task = "GET-TO" -> {<<"SLEADER1", "l1">>, <<"FOOD1", "l1">>, <<"PERSON1", "l1">>,
                             <<"PCREW1", "l1">>, <<"l1", "BRIGHTON-DUMP">>}
      [] task = "REPAIR-LINE" -> {<<"PCREW1", "l1">>}
      [] task \in {"GET-IN", "GET-OUT"} -> {<<"GEN1", "l1">>}
      [] OTHER -> {}
\* in windows of one or two invocations: every tuple over Gen, the special
\* tuples, and a tuple one short
ShortParams(task) ==
    [1..Arity(task) -> Gen] \cup Special(task) \cup {[k \in 1..(Arity(task) - 1) |-> "l1"]}
\* in longer windows: the constant tuples and the special tuples
LongParams(task) ==
    IF task = "GET-TO" THEN [1..2 -> Gen] \cup Special(task)
    ELSE {[k \in 1..Arity(task) |-> s] : s \in Gen} \cup Special(task)

CObjs == {"PCREW1", "PERSON1", "GEN1"}
\* no facts; facts with one match per query; facts with two matches for the
\* queries about l1 and one ATLOC match for l2
StateChoices ==
    {<<CObjs, {}>>,
     <<CObjs, {<<"ATLOC", "l1", "l2">>, <<"ATLOC", "l2", "l1">>,
               <<"HAZARD-SERIOUSNESS", "l1", "l2", "VERY-HAZARDOUS">>,
               <<"WRECKED-VEHICLE", "l1", "l2", None>>}>>,
     <<CObjs \ {"PCREW1"},
               {<<"ATLOC", "l1", "l1">>, <<"ATLOC", "l1", "l2">>,
               <<"ATLOC", "l2", "l1">>,
               <<"HAZARD-SERIOUSNESS", "l1", "l2", "VERY-HAZARDOUS">>,
               <<"HAZARD-SERIOUSNESS", "l2", "l1", "VERY-HAZARDOUS">>,
               <<"WRECKED-VEHICLE", "l1", "l2", None>>,
               <<"WRECKED-VEHICLE", "l2", "l2", None>>}>>}
\* the states of a longer window: one state throughout, or a first state
\* that differs from the rest
LongStates(n) ==
    {[i \in 1..n |-> IF i = 1 THEN s ELSE t] : s \in StateChoices, t \in StateChoices}

\* the sequences that take one element from each set of a sequence of sets
RECURSIVE Prod(_)
Prod(sets) ==
    IF sets = <<>> THEN {<<>>}
    ELSE {<<h>> \o t : h \in Head(sets), t \in Prod(Tail(sets))}

\* past M: one state throughout and constant tuples

\* a window of the task names pat, with states ss and parameter tuples xs
Window(pat, ss, xs) == [i \in 1..Len(pat) |-> <<ss[i], pat[i], xs[i]>>]

\* windows of the Baxter domain
BaxterTasks ==
    {"move arm and grasp", "put down grasped object", "move unobstructed object",
     "move object", "move object to free spot", "move grasped object", "release"}
BaxterPatterns ==
    {<<"move arm and grasp">>, <<"put down grasped object">>,
     <<"move unobstructed object">>, <<"move object">>, <<"move object to free spot">>,
     <<"move grasped object", "release">>,
     <<"move arm and grasp", "put down grasped object">>,
     <<"move arm and grasp", "move grasped object", "release">>}
BaxterUnmatched ==
    {<<"release">>, <<"move grasped object">>, <<"release", "release">>,
     <<"move arm and grasp", "release">>, <<"release", "release", "release">>}
BaxterPatternM == <<"move arm and grasp", "move grasped object", "release">>
BaxterOverlong ==
    {BaxterPatternM \o [i \in 1..k |-> "release"] : k \in 1..(MaxWindow - baxter_M)}
BaxterKeys == {"gripping", "drive_1", "dock-drawer_1", "dock-case_6", "discard-bin"}
AsmType(k) ==
    CASE k = "drive_1" -> "Drive"
      [] k = "dock-drawer_1" -> "DockDrawer"
      [] k = "dock-case_6" -> "DockCase"
      [] k = "discard-bin" -> "Bin"
BaxterFull ==
    [k \in BaxterKeys |->
        IF k = "gripping" THEN <<"drive_1", "dock-drawer_1">> ELSE AsmType(k)]
BaxterNoBin ==
    [k \in BaxterKeys \ {"discard-bin"} |->
        IF k = "gripping" THEN <<"dock-drawer_1", "drive_1">> ELSE AsmType(k)]
BaxterStates == {BaxterFull, BaxterNoBin}
BaxterDts == {<< <<0>>, <<1>> >>, << <<1>>, <<1>> >>}
BaxterArgs(task) ==
    CASE task = "move arm and grasp" ->
            {<<arm, o>> : arm \in {"1", "2"},
                          o \in {"drive_1", "dock-drawer_1", "dock-case_6"}}
      [] task \in {"put down grasped object", "move grasped object"} ->
            {<<arm, "dock-case_6", <<>>, dt>> : arm \in {"1", "2"}, dt \in BaxterDts}
      [] task \in {"move unobstructed object", "move object"} ->
            {<<"drive_1", d, <<>>, << <<0>>, <<1>> >> >> :
                d \in {"left", "dock-case_6", "discard-bin", "dock-drawer_1"}}
      [] task = "move object to free spot" ->
            {<<"drive_1", d>> : d \in {"dock-case_6", "discard-bin"}}
      [] task = "release" -> {<<"1">>, <<"2">>}
IsBaxter(v) == v # <<>> /\ v[1][2] \in BaxterTasks

BaxterInit ==
    /\ UnifyIdle /\ StatesIdle /\ TreeIdle
    /\ cFn = "none"
    /\ cRet = NoRet
    /\ causal_relation = {}
    /\ kGrow = NoGrow
    /\ het_causes = NoHet
    /\ \/ \E pat \in BaxterPatterns \cup BaxterUnmatched :
            \E ss \in [1..Len(pat) -> BaxterStates],
               xs \in Prod([i \in 1..Len(pat) |-> BaxterArgs(pat[i])]) :
                cV = Window(pat, ss, xs)
       \/ \E pat \in BaxterOverlong :
            \E s \in BaxterStates, arm \in {"1", "2"} :
                cV = Window(pat, [i \in 1..Len(pat) |-> s],
                            [i \in 1..Len(pat) |->
                                CASE pat[i] = "move arm and grasp" -> <<arm, "dock-drawer_1">>
                                  [] pat[i] = "move grasped object" ->
                                        <<arm, "dock-case_6", <<>>, << <<1>>, <<1>> >> >>
                                  [] OTHER -> <<arm>>])

\* windows, labels and covers of the knowledge base
KbTasks == {"pick", "place"}
KbLabels == {"move", "swap"}
KbArgs == {<<>>, <<"x">>, <<"y", "x">>}
KbInvocations(state) == {<<state, t, a>> : t \in KbTasks, a \in KbArgs}
KbWindows ==
    {<<i>> : i \in KbInvocations("s0")}
    \cup {<<i, j>> : i \in KbInvocations("s0"), j \in KbInvocations("s1")}
\* a cover (u, _, _, _, _) with the top-level sequence u
Cover(u) == <<u, "_", "_", "_", "_">>
KbCovers ==
    {Cover(<< <<"s0", "pick", <<"x">> >> >>),
     Cover(<< <<"s1", "pick", <<"y">> >> >>),
     Cover(<< <<"s0", "pick", <<"x">> >>, <<"s1", "place", <<"y", "x">> >> >>)}
IsKb(v) == v # <<>> /\ v[1][2] \in KbTasks

\* the Baxter windows a knowledge base is used with: one the Baxter relation
\* explains with the parameters of the window, one it explains with other
\* parameters, one it does not explain and one it raises for
HetMove == <<BaxterFull, "move unobstructed object",
             <<"drive_1", "left", <<>>, << <<0>>, <<1>> >> >> >>
HetGrasp == <<BaxterFull, "move arm and grasp", <<"1", "drive_1">> >>
HetPut == <<BaxterFull, "put down grasped object",
            <<"1", "dock-case_6", <<>>, << <<0>>, <<1>> >> >> >>
HetWindows ==
    {<<HetMove>>,
     <<HetGrasp, HetPut>>,
     << <<BaxterFull, "release", <<"1">> >> >>,
     << <<BaxterNoBin, "move unobstructed object",
          <<"drive_1", "discard-bin", <<>>, << <<0>>, <<1>> >> >> >> >>}
HetLabels == {"move object", "remove bad drive"}
HetCovers == {Cover(<<HetMove>>), Cover(<<HetGrasp, HetPut>>)}
IsHet(v) == IsBaxter(v) /\ v \in HetWindows
GrowLabels(v) == IF IsKb(v) THEN KbLabels ELSE HetLabels
GrowCovers(v) == IF IsKb(v) THEN KbCovers ELSE HetCovers

KbInit ==
    /\ UnifyIdle /\ StatesIdle /\ TreeIdle
    /\ cFn = "none"
    /\ cRet = NoRet
    /\ causal_relation = {}
    /\ kGrow = NoGrow
    /\ het_causes = NoHet
    /\ cV \in KbWindows

IsMonroe(v) == v # <<>> /\ v[1][2] \in CompoundTasks \cup DOMAIN PrimitiveArity

MonroeInit ==
    /\ UnifyIdle /\ StatesIdle /\ TreeIdle
    /\ cFn = "none"
    /\ cRet = NoRet
    /\ causal_relation = {}
    /\ kGrow = NoGrow
    /\ het_causes = NoHet
    /\ \/ \E pat \in ShortPatterns \cup UnmatchedShort :
            \E ss \in [1..Len(pat) -> StateChoices],
               xs \in Prod([i \in 1..Len(pat) |-> ShortParams(pat[i])]) :
                cV = Window(pat, ss, xs)
       \/ \E pat \in LongPatterns \cup UnmatchedLong :
            \E ss \in LongStates(Len(pat)),
               xs \in Prod([i \in 1..Len(pat) |-> LongParams(pat[i])]) :
                cV = Window(pat, ss, xs)
       \/ \E pat \in OverlongPatterns :
            \E s \in StateChoices, x \in Gen :
                cV = Window(pat, [i \in 1..Len(pat) |-> s],
                            [i \in 1..Len(pat) |-> [k \in 1..Arity(pat[i]) |-> x]])

CallMidCauses ==
    /\ cFn = "none"
    /\ IsMonroe(cV)
    /\ cRet' = mid_causes_run(cV)
    /\ cFn' = "mid_causes"
    /\ UNCHANGED <<cV, causal_relation, kGrow, het_causes, uvars, svars, tvars>>

CallTopCauses ==
    /\ cFn = "none"
    /\ IsMonroe(cV)
    /\ cRet' = top_causes_run(cV)
    /\ cFn' = "top_causes"
    /\ UNCHANGED <<cV, causal_relation, kGrow, het_causes, uvars, svars, tvars>>

CallCauses ==
    /\ cFn = "none"
    /\ IsMonroe(cV)
    /\ cRet' = causes_run(cV)
    /\ cFn' = "causes"
    /\ UNCHANGED <<cV, causal_relation, kGrow, het_causes, uvars, svars, tvars>>

\* baxter_experiments.causes(cV)
CallBaxterCauses ==
    /\ cFn = "none"
    /\ IsBaxter(cV)
    /\ cRet' = baxter_causes_run(cV)
    /\ cFn' = "baxter_causes"
    /\ UNCHANGED <<cV, causal_relation, kGrow, het_causes, uvars, svars, tvars>>

\* kb.grow(name, covers)
CallGrow ==
    /\ IsKb(cV) \/ IsHet(cV)
    /\ \E name \in GrowLabels(cV), covers \in SeqsUpTo(GrowCovers(cV), MaxCovers) :
          /\ causal_relation' = grow(causal_relation, name, covers)
          /\ kGrow' = [name |-> name, covers |-> covers]
    /\ cFn' = "grow"
    /\ cRet' = NoRet
    /\ UNCHANGED <<cV, het_causes, uvars, svars, tvars>>

\* kb.causes(cV)
CallKbCauses ==
    /\ IsKb(cV) \/ IsHet(cV)
    /\ cRet' = Adds(kb_causes(causal_relation, cV))
    /\ cFn' = "kb_causes"
    /\ UNCHANGED <<cV, causal_relation, kGrow, het_causes, uvars, svars, tvars>>

\* het_causes = kb.make_heterogenous_causes(causes), causes of the Baxter domain
CallMakeHet ==
    /\ IsHet(cV)
    /\ het_causes' = [base |-> "baxter_causes", made_with |-> causal_relation]
    /\ cFn' = "make_heterogenous_causes"
    /\ cRet' = NoRet
    /\ UNCHANGED <<cV, causal_relation, kGrow, uvars, svars, tvars>>

\* het_causes(cV)
CallHet ==
    /\ IsHet(cV)
    /\ het_causes # NoHet
    /\ cRet' = het_run(het_causes, causal_relation, cV)
    /\ cFn' = "het_causes"
    /\ UNCHANGED <<cV, causal_relation, kGrow, het_causes, uvars, svars, tvars>>

CausesInit == MonroeInit \/ BaxterInit \/ KbInit

CausesNext ==
    \/ CallMidCauses
    \/ CallTopCauses
    \/ CallCauses
    \/ CallBaxterCauses
    \/ CallGrow
    \/ CallKbCauses
    \/ CallMakeHet
    \/ CallHet

SpecCauses == CausesInit /\ [][CausesNext]_vars

(***************************************************************************)
(* Inputs of the unification specification.                                *)
(***************************************************************************)
USyms == {"a", "b"}
UArities == {1, 2}
UFactUniverse == {<<"a">>, <<"a", "a">>, <<"a", "b">>, <<"b", "a">>}
UQueryUniverse == UNION {[1..n -> USyms \cup {None}] : n \in UArities}
UnifyInit ==
    /\ uFacts \in SeqsUpTo(UFactUniverse, MaxFacts)
    /\ uQueries \in SeqsUpTo(UQueryUniverse, MaxQueries)
    /\ uPc = "start"
    /\ uMatches = {}
    /\ uRet = [raised |-> FALSE, ret |-> <<>>, tried |-> 0]
    /\ StatesIdle
    /\ TreeIdle
    /\ CausesIdle

\* a call unify(uFacts, uQueries[1])
CallUnify ==
    /\ uPc = "start"
    /\ Len(uQueries) >= 1
    /\ uMatches' = unify(uFacts, uQueries[1])
    /\ uPc' = "unify"
    /\ UNCHANGED <<uFacts, uQueries, uRet>>
    /\ UNCHANGED <<svars, tvars, cvars>>

\* a call single_unify(uFacts, *uQueries)
CallSingleUnify ==
    /\ uPc = "start"
    /\ uRet' = single_unify_run(uFacts, uQueries)
    /\ uPc' = "single_unify"
    /\ UNCHANGED <<uFacts, uQueries, uMatches>>
    /\ UNCHANGED <<svars, tvars, cvars>>

UnifyNext == CallUnify \/ CallSingleUnify

SpecUnify == UnifyInit /\ [][UnifyNext]_vars

(***************************************************************************)
(* Unification: what the calls are expected to return, stated without the  *)
(* loops above.                                                            *)
(***************************************************************************)
Range(s) == {s[i] : i \in 1..Len(s)}
WildPos(q) == {j \in 1..Len(q) : q[j] = None}

\* f agrees with q: same arity, equal at every position q fixes
Agrees(f, q) ==
    /\ Len(f) = Len(q)
    /\ \A j \in (1..Len(q)) \ WildPos(q) : f[j] = q[j]

\* the values of f at the wildcard positions of q, in position order
Projection(f, q) ==
    [k \in 1..Cardinality(WildPos(q)) |->
        f[CHOOSE j \in WildPos(q) : Cardinality({i \in WildPos(q) : i <= j}) = k]]

ExpectedMatches(F, q) == {Projection(f, q) : f \in {g \in F : Agrees(g, q)}}

\* the positions of uQueries whose query has exactly one expected match
UniqueIdx ==
    {i \in 1..Len(uQueries) :
        Cardinality(ExpectedMatches(Range(uFacts), uQueries[i])) = 1}
FirstUnique == CHOOSE i \in UniqueIdx : \A j \in UniqueIdx : i <= j
Sole(S) == CHOOSE x \in S : TRUE
AllNone(t) == \A k \in 1..Len(t) : t[k] = None
LastQuery == uQueries[Len(uQueries)]

\* C1: unify(F, q) is exactly the set of projections, onto the wildcard
\* positions of q, of the facts of F that have q's arity and equal q at every
\* position q fixes; for an all-None query of arity k that is one binding per
\* distinct fact of arity k, and it is empty when no fact matches.
C1_UnifyIsProjectionOfMatchingFacts ==
    uPc = "unify" =>
        LET q == uQueries[1]
            F == Range(uFacts)
        IN  /\ uMatches = ExpectedMatches(F, q)
            /\ (WildPos(q) = 1..Len(q)) =>
                   /\ uMatches = {f \in F : Len(f) = Len(q)}
                   /\ Cardinality(uMatches) = Cardinality({f \in F : Len(f) = Len(q)})
            /\ (\A f \in F : ~Agrees(f, q)) => uMatches = {}

\* C1 witness: a query with a fixed and a wildcard position, matched by two
\* facts
C1_Witness ==
    /\ uPc = "unify"
    /\ uQueries[1] = <<"a", None>>
    /\ uFacts = <<(<<"a", "b">>), (<<"a", "a">>)>>
    /\ uMatches = {<<"a">>, <<"b">>}

\* C2: single_unify tries the queries in the given order and returns the
\* single binding of the first query with exactly one match; the queries
\* before it are skipped and the queries after it are never handed to unify.
C2_SingleUnifyReturnsFirstUniqueInOrder ==
    (uPc = "single_unify" /\ UniqueIdx # {}) =>
        /\ ~uRet.raised
        /\ uRet.ret = Sole(ExpectedMatches(Range(uFacts), uQueries[FirstUnique]))
        /\ uRet.tried = FirstUnique

\* C2 witness: the first query has two matches and is skipped, the second has
\* one and is returned
C2_Witness ==
    /\ uPc = "single_unify"
    /\ Len(uQueries) = 2
    /\ UniqueIdx = {2}
    /\ Cardinality(ExpectedMatches(Range(uFacts), uQueries[1])) = 2
    /\ uRet.tried = 2
    /\ uRet.ret = <<"a">>

\* C3 as claimed: a binding is returned only when exactly one query has exactly
\* one match; otherwise (also when several queries have exactly one match each)
\* the all-None tuple of the last query's wildcard count is returned.
C3_Original_BindingOnlyWhenOneQueryUnique ==
    (uPc = "single_unify" /\ Len(uQueries) >= 1) =>
        IF Cardinality(UniqueIdx) = 1
        THEN uRet.ret = Sole(ExpectedMatches(Range(uFacts), uQueries[FirstUnique]))
        ELSE uRet.ret = [k \in 1..Cardinality(WildPos(LastQuery)) |-> None]

\* C3 as amended: single_unify returns a binding whenever at least one query
\* has exactly one match, also when several have, and then it is the binding
\* of the first such query; it returns the all-None tuple of the last query's
\* wildcard count only when no query has exactly one match.
C3_BindingWheneverSomeQueryUnique ==
    (uPc = "single_unify" /\ Len(uQueries) >= 1) =>
        IF Cardinality(UniqueIdx) >= 1
        THEN uRet.ret = Sole(ExpectedMatches(Range(uFacts), uQueries[FirstUnique]))
        ELSE uRet.ret = [k \in 1..Cardinality(WildPos(LastQuery)) |-> None]

\* C3 witness: two queries with exactly one match each, and the binding of the
\* first is returned, not the all-None tuple
C3_Witness ==
    /\ uPc = "single_unify"
    /\ Cardinality(UniqueIdx) = 2
    /\ uRet.ret = <<"a">>
    /\ Sole(ExpectedMatches(Range(uFacts), uQueries[2])) = <<"b">>

\* C4: with a non-empty list of queries none of which has exactly one match,
\* single_unify does not raise and returns a tuple of None only, as long as the
\* number of None positions of the last query.
C4_NoUniqueMatchGivesNoneTupleOfLastQuery ==
    (uPc = "single_unify" /\ Len(uQueries) >= 1 /\ UniqueIdx = {}) =>
        /\ ~uRet.raised
        /\ AllNone(uRet.ret)
        /\ Len(uRet.ret) = Cardinality(WildPos(LastQuery))

\* C4 witness: two queries of different wildcard counts, the first with no
\* match and the last with two, and the result sized by the last
C4_Witness ==
    /\ uPc = "single_unify"
    /\ Len(uQueries) = 2
    /\ UniqueIdx = {}
    /\ Cardinality(WildPos(uQueries[1])) = 2
    /\ Cardinality(WildPos(uQueries[2])) = 1
    /\ Cardinality(ExpectedMatches(Range(uFacts), uQueries[2])) = 2
    /\ uRet.ret = <<None>>

(***************************************************************************)
(* State inference, one operator at a time (SpecOp).                       *)
(***************************************************************************)
Visited == callOp # NoOp
Task == callOp[1]
OldPre == Last(callPre)[2]                  \* facts of the pre-state passed in
NewPre == states[Len(states) - 1][2]        \* facts stored at the previous index
Post == Last(states)[2]                     \* facts of the appended state
AtlocOf(F) == {f \in F : f[1] = "ATLOC"}

\* the ATLOC queries each operator rule hands to single_unify, in order
QueriesOf(op) ==
    CASE op[1] = "!NAVEGATE-VEHICLE" ->
             <<(<<"ATLOC", op[3], None>>), (<<"ATLOC", op[2], None>>)>>
      [] op[1] = "!CLIMB-IN" ->
             <<(<<"ATLOC", op[2], None>>), (<<"ATLOC", op[3], None>>)>>
      [] op[1] = "!CLIMB-OUT" -> <<(<<"ATLOC", op[3], None>>)>>
      [] op[1] = "!LOAD" ->
             <<(<<"ATLOC", op[2], None>>), (<<"ATLOC", op[3], None>>),
               (<<"ATLOC", op[4], None>>)>>
      [] op[1] = "!UNLOAD" ->
             <<(<<"ATLOC", op[4], None>>), (<<"ATLOC", op[2], None>>)>>
      [] op[1] = "!TREAT" ->
             <<(<<"ATLOC", op[2], None>>), (<<"ATLOC", op[3], None>>)>>

\* the precondition that names no location variable: (atloc ?obj ?veh) of
\* !climb-out and !unload
KnownPre(op) ==
    CASE op[1] = "!CLIMB-OUT" -> {<<"ATLOC", op[2], op[3]>>}
      [] op[1] = "!UNLOAD" -> {<<"ATLOC", op[3], op[4]>>}
      [] OTHER -> {}

\* the location variable of the operator (?vehloc, ?objloc, ?ploc) as the
\* pre-state determines it: the single match of the first query that has
\* exactly one, None when every query has none or several
LocOf(op, pre) ==
    LET F == pre \cup KnownPre(op)
        qs == QueriesOf(op)
        U == {i \in 1..Len(qs) : Cardinality(ExpectedMatches(F, qs[i])) = 1}
    IN  IF U = {} THEN None
        ELSE Sole(ExpectedMatches(F, qs[CHOOSE i \in U : \A j \in U : i <= j]))[1]

SomeQueryAmbiguous(op, pre) ==
    \E i \in 1..Len(QueriesOf(op)) :
        Cardinality(ExpectedMatches(pre \cup KnownPre(op), QueriesOf(op)[i])) > 1

\* the delete list and the add list of the operators, from the (:operator ...)
\* forms, for the location x of the location variable; a fact that names an
\* undetermined location is no fact
DelList(op, x) ==
    CASE op[1] = "!NAVEGATE-VEHICLE" ->
             IF x = None THEN {} ELSE {<<"ATLOC", op[3], x>>, <<"ATLOC", op[2], x>>}
      [] op[1] = "!CLIMB-IN" -> IF x = None THEN {} ELSE {<<"ATLOC", op[2], x>>}
      [] op[1] = "!CLIMB-OUT" -> {<<"ATLOC", op[2], op[3]>>}
      [] op[1] = "!LOAD" -> IF x = None THEN {} ELSE {<<"ATLOC", op[3], x>>}
      [] op[1] = "!UNLOAD" -> {<<"ATLOC", op[3], op[4]>>}
      [] op[1] = "!TREAT" -> {}

AddList(op, x) ==
    CASE op[1] = "!NAVEGATE-VEHICLE" ->
             {<<"ATLOC", op[3], op[4]>>, <<"ATLOC", op[2], op[4]>>}
      [] op[1] = "!CLIMB-IN" -> {<<"ATLOC", op[2], op[3]>>}
      [] op[1] = "!CLIMB-OUT" -> IF x = None THEN {} ELSE {<<"ATLOC", op[2], x>>}
      [] op[1] = "!LOAD" -> {<<"ATLOC", op[3], op[4]>>}
      [] op[1] = "!UNLOAD" -> IF x = None THEN {} ELSE {<<"ATLOC", op[3], x>>}
      [] op[1] = "!TREAT" -> {}

\* C5: when preprocess_plan returns, populate_tree_states has returned exactly
\* len(extract_leaves(tree)) + 1 states, the pre-state of the i-th leaf is the
\* state at index i (here i counts from 1), the state of w[i] is that pre-state,
\* and the state of v[k] is the pre-state of the first leaf of the k-th subtree.
C5_StatesAlignWithLeaves ==
    tPc = "done" =>
        LET n == Len(actions)
        IN  /\ Len(states) = n + 1
            /\ \A i \in 1..Len(actions) :
                   /\ leafPre[i] = i
                   /\ out.w[i][1] = states[leafPre[i]]
            /\ \A k \in 1..Len(plan_tree.subs) :
                   out.v[k][1] = states[leafPre[LeafIndices(plan_tree.subs, k - 1) + 1]]

C7_InternalNodeKeepsLength ==
    (Visited /\ ~callLeaf /\ Task \in CompoundTasks) => Len(states) = Len(callPre)

\* C8: after a leaf !NAVEGATE-VEHICLE person veh loc is visited, PERSON person
\* and VEHICLE veh are facts of every state accumulated so far, the operator's
\* own pre-state and the post-state included, and likewise FIT-IN obj veh
\* after a leaf !LOAD person obj veh; a typing fact of a state is a fact of
\* every later state of the list.
C8_TypingFactsInEveryState ==
    /\ (Visited /\ callLeaf /\ Task = "!NAVEGATE-VEHICLE") =>
           \A s \in 1..Len(states) :
               {<<"PERSON", callOp[2]>>, <<"VEHICLE", callOp[3]>>} \subseteq states[s][2]
    /\ (Visited /\ callLeaf /\ Task = "!LOAD") =>
           \A s \in 1..Len(states) : <<"FIT-IN", callOp[3], callOp[4]>> \in states[s][2]
    /\ \A s \in 1..Len(states) : \A t \in s..Len(states) :
           {f \in states[s][2] : f[1] \in {"PERSON", "VEHICLE", "FIT-IN"}}
               \subseteq states[t][2]

\* C9: for the six ATLOC operators, when every ATLOC query handed to
\* single_unify has no match or several in the pre-state, the ATLOC facts of
\* the completed pre-state are those it had plus the precondition that names no
\* location variable, and the ATLOC facts of the post-state are these minus the
\* deletions and plus the additions that name no location variable: no fact
\* about the undetermined location is added or removed.
C9_NothingGuessedWhenLocationUnresolved ==
    (Visited /\ callLeaf /\ Task \in AtlocTasks /\ LocOf(callOp, OldPre) = None) =>
        /\ AtlocOf(NewPre) = AtlocOf(OldPre) \cup KnownPre(callOp)
        /\ AtlocOf(Post) = (AtlocOf(NewPre) \ DelList(callOp, None))
                               \cup AddList(callOp, None)

\* C9 witness: an ATLOC operator visited when one of its queries has several
\* matches and none has exactly one
C9_Witness ==
    /\ Visited /\ callLeaf /\ Task \in AtlocTasks
    /\ LocOf(callOp, OldPre) = None
    /\ SomeQueryAmbiguous(callOp, OldPre)

\* C10: for the six ATLOC operators the facts of the appended post-state are
\* the facts of the completed pre-state stored at the previous index, minus the
\* operator's delete list, plus its add list.
C10_PostIsPreMinusDeletePlusAdd ==
    (Visited /\ callLeaf /\ Task \in AtlocTasks) =>
        LET x == LocOf(callOp, OldPre)
        IN  Post = (NewPre \ DelList(callOp, x)) \cup AddList(callOp, x)

\* C11: a call populate_states_from_op(pre_states, op), made for a leaf or for
\* the root of an internal node by populate_tree_states, leaves the list object
\* it was given unchanged, in length and in every element.
C11_CallLeavesItsListUnchanged ==
    Visited => callArg = callPre

(***************************************************************************)
(* The tree queries (SpecTree).                                            *)
(***************************************************************************)
\* the leaf invocations of a tree, left to right, depth first
RECURSIVE LeavesOf(_)
LeavesOf(tree) ==
    IF tree.leaf THEN <<tree.op>>
    ELSE Concat([k \in 1..Len(tree.subs) |-> LeavesOf(tree.subs[k])])

RECURSIVE NumLeaves(_)
RECURSIVE SumLeaves(_, _)
NumLeaves(tree) == IF tree.leaf THEN 1 ELSE SumLeaves(tree.subs, Len(tree.subs))
SumLeaves(subs, k) == IF k = 0 THEN 0 ELSE SumLeaves(subs, k - 1) + NumLeaves(subs[k])

\* C12: for any plan tree, whatever the number of children of its internal
\* nodes, extract_leaves returns without error the leaf invocations in
\* left-to-right depth-first order, as many as the tree has leaves.
C12_ExtractLeavesReturnsAllLeaves ==
    tPc # "start" =>
        /\ tPc # "raised"
        /\ actions = LeavesOf(plan_tree)
        /\ Len(actions) = NumLeaves(plan_tree)

(***************************************************************************)
(* The causal relation of the Monroe domain (SpecCauses).                  *)
(***************************************************************************)
\* the window without its i-th invocation (i counts from 1)
RemoveAt(v, i) == SubSeq(v, 1, i - 1) \o SubSeq(v, i + 1, Len(v))
\* the (task name, parameter tuple) pairs of a set of candidates
Parents(g) == {<<c[2], c[3]>> : c \in g}

\* C13: whenever causes derives a parent (task name, parameter tuple) from a
\* window that contains a GET-TO invocation next to other invocations, it
\* derives a parent with the same task name and parameter tuple from the
\* window without that GET-TO invocation.
C13_ParentDerivedWithoutGetTo ==
    (cFn = "causes" /\ ~cRet.raised /\ Len(cV) >= 2) =>
        \A i \in 1..Len(cV) :
            cV[i][2] = "GET-TO" => Parents(cRet.g) \subseteq Parents(causes(RemoveAt(cV, i)))

\* the positions <<i, k, j, l>> (as the source counts them) that the method of
\* a two-invocation branch binds to one variable: parameter k of v[i] and
\* parameter l of v[j]
SameVariable ==
    [pat \in {<<"GET-TO", "!CLEAN-HAZARD">>, <<"GET-TO", "!DIG">>,
              <<"GET-TO", "!FILL-IN">>} |-> {<<0, 1, 1, 1>>, <<0, 2, 1, 2>>}]
    @@
    [pat \in {<<"GET-TO", "!PLACE-CONES">>, <<"GET-TO", "!PICKUP-CONES">>,
              <<"GET-TO", "!TREAT">>, <<"GET-TO", "!LOAD">>, <<"GET-TO", "!UNLOAD">>,
              <<"GET-TO", "!CUT-TREE">>, <<"GET-TO", "!CARRY-BLOCKAGE-OUT-OF-WAY">>}
        |-> {<<0, 1, 1, 1>>}]
    @@
    [pat \in {<<"GET-TO", "ADD-FUEL">>} |-> {<<0, 1, 1, 2>>, <<0, 2, 1, 1>>}]
    @@
    [pat \in {<<"GET-TO", "SET-UP-CONES">>} |-> {<<0, 2, 1, 1>>}]
    @@
    [pat \in {<<"SET-UP-CONES", "GET-TO">>} |-> {<<0, 1, 1, 2>>}]
    @@
    [pat \in {<<"GET-IN", "GET-OUT">>} |-> {<<0, 1, 1, 1>>, <<0, 2, 1, 2>>}]

\* every invocation carries as many parameters as its task has
WellFormed(v) == \A i \in 1..Len(v) : Len(v[i][3]) = Arity(v[i][2])

\* the two invocations carry different symbols at positions bound to one variable
Inconsistent(v) ==
    \E q \in SameVariable[tasknames(v)] :
        /\ Rd(v, q[1], q[2]) # IndexError
        /\ Rd(v, q[3], q[4]) # IndexError
        /\ Rd(v, q[1], q[2]) # Rd(v, q[3], q[4])

\* C14: a two-invocation window that matches a branch and carries different
\* symbols at positions the branch's method binds to one variable gets no
\* candidate from that branch (each of these windows matches one branch only).
C14_InconsistentWindowGetsNoCandidate ==
    (cFn = "causes" /\ tasknames(cV) \in DOMAIN SameVariable /\ WellFormed(cV)
        /\ Inconsistent(cV)) => cRet.g = {}

\* the matches of the ATLOC query about x in the state of v[i] (i as the source
\* counts it)
AtlocMatches(v, i, x) == ExpectedMatches(FactsAt(v, i), <<"ATLOC", x, None>>)
HazardMatches(v) ==
    ExpectedMatches(FactsAt(v, 0), <<"HAZARD-SERIOUSNESS", None, None, "VERY-HAZARDOUS">>)
WreckMatches(v) == ExpectedMatches(FactsAt(v, 0), <<"WRECKED-VEHICLE", None, None, None>>)
\* the second parameters of the candidates GET-TO obj ... of a result
PlacesOf(g, obj) == {c[3][2] : c \in {d \in g : d[2] = "GET-TO" /\ d[3][1] = obj}}
ConesParent(task) == IF task = "!PLACE-CONES" THEN "SET-UP-CONES" ELSE "TAKE-DOWN-CONES"
GetInGetOut(v) ==
    /\ tasknames(v) = <<"GET-IN", "GET-OUT">>
    /\ WellFormed(v)
    /\ v[1][3] = v[2][3]

\* C15 as claimed: whenever the unify of a branch returns more than one
\* binding, the result holds one candidate for each binding found, in the
\* '!CALL FEMA', '!PLACE-CONES', '!PICKUP-CONES', 'TOW-TO' and GET-IN/GET-OUT
\* branches.
C15_Original_OneCandidatePerBinding ==
    (cFn = "causes" /\ ~cRet.raised) =>
        /\ (tasknames(cV) = <<"!CALL">> /\ cV[1][3] = <<"FEMA">>
               /\ Cardinality(HazardMatches(cV)) > 1) =>
              \A m \in HazardMatches(cV) : <<"CLEAN-UP-HAZARD", m>> \in Parents(cRet.g)
        /\ (tasknames(cV) = <<"TOW-TO">> /\ Cardinality(WreckMatches(cV)) > 1) =>
              \A m \in WreckMatches(cV) :
                  <<"CLEAR-WRECK", <<m[1], m[2]>> >> \in Parents(cRet.g)
        /\ (tasknames(cV) \in {<<"!PLACE-CONES">>, <<"!PICKUP-CONES">>} /\ WellFormed(cV)
               /\ Cardinality(AtlocMatches(cV, 0, cV[1][3][1])) > 1) =>
              \A m \in AtlocMatches(cV, 0, cV[1][3][1]) :
                  \E toloc \in poslocs :
                      <<ConesParent(cV[1][2]), <<m[1], toloc>> >> \in Parents(cRet.g)
        /\ (GetInGetOut(cV) /\ Cardinality(AtlocMatches(cV, 1, cV[2][3][2])) > 1) =>
              \A m \in AtlocMatches(cV, 1, cV[2][3][2]) :
                  m[1] \in PlacesOf(cRet.g, cV[2][3][1])

\* C15: the '!CALL FEMA' and 'TOW-TO' branches add one candidate for each
\* binding found.  The '!PLACE-CONES' and '!PICKUP-CONES' branches, when the
\* ATLOC query about the crew has no single match, add a candidate for every
\* pair of locations of poslocs.  The GET-IN/GET-OUT branch, when the ATLOC
\* query about the vehicle has no single match, adds the candidate of the
\* single match of the query about the object if there is one and no other,
\* and a candidate for every location of poslocs if there is none.
C15_AllBindingsOrAllLocations ==
    (cFn = "causes" /\ ~cRet.raised) =>
        /\ (tasknames(cV) = <<"!CALL">> /\ cV[1][3] = <<"FEMA">>) =>
              \A m \in HazardMatches(cV) : <<"CLEAN-UP-HAZARD", m>> \in Parents(cRet.g)
        /\ tasknames(cV) = <<"TOW-TO">> =>
              \A m \in WreckMatches(cV) :
                  <<"CLEAR-WRECK", <<m[1], m[2]>> >> \in Parents(cRet.g)
        /\ (tasknames(cV) \in {<<"!PLACE-CONES">>, <<"!PICKUP-CONES">>} /\ WellFormed(cV)
               /\ Cardinality(AtlocMatches(cV, 0, cV[1][3][1])) # 1) =>
              \A fromloc \in poslocs, toloc \in poslocs :
                  <<ConesParent(cV[1][2]), <<fromloc, toloc>> >> \in Parents(cRet.g)
        /\ (GetInGetOut(cV) /\ Cardinality(AtlocMatches(cV, 1, cV[2][3][2])) # 1) =>
              LET mo == AtlocMatches(cV, 1, cV[2][3][1])
                  obj == cV[2][3][1]
                  extra == IF obj \in GenNamed THEN {"TEXACO1"} ELSE {}
              IN  IF Cardinality(mo) = 1
                  THEN PlacesOf(cRet.g, obj) = {Sole(mo)[1]} \cup extra
                  ELSE PlacesOf(cRet.g, obj) = poslocs \cup extra
\* C15 witness: GET-IN and GET-OUT of an object with one location into and out
\* of a vehicle with two; the result is the one candidate of the object's
\* location
C15_Witness ==
    /\ cFn = "causes" /\ ~cRet.raised
    /\ GetInGetOut(cV)
    /\ Cardinality(AtlocMatches(cV, 1, cV[2][3][2])) = 2
    /\ Cardinality(AtlocMatches(cV, 1, cV[2][3][1])) = 1
    /\ Cardinality(cRet.g) = 1

MonroeCalls == {"mid_causes", "top_causes", "causes"}
\* every invocation of v carries the one symbol x at all its positions
Uniform(v, x) == \A i \in 1..Len(v) : v[i][3] = [k \in 1..Arity(v[i][2]) |-> x]

C17_ShortParametersRaiseNothing ==
    (cFn = "causes" /\ tasknames(cV) \in ShortPatterns \cup LongPatterns
        /\ ~WellFormed(cV)) => ~cRet.raised

SchemaOf(u) == [i \in 1..Len(u) |-> <<u[i][2], Len(u[i][3])>>]
\* the pairs a grow call with the arguments a stores
PairsOf(a) == {<<a.name, SchemaOf(c[1])>> : c \in Range(a.covers)}
\* the labels stored with the schema of v
LabelsFor(rel, v) == {p[1] : p \in {q \in rel : q[2] = SchemaOf(v)}}

\* C19: grow(label, covers) adds, for each cover, exactly the pair of the label
\* and the schema of the cover's u; a grow whose pairs are all stored leaves
\* the stored set as it was, and so does a grow with no covers.
C19_GrowAddsOnePairPerCover ==
    [][cFn' = "grow" =>
          /\ causal_relation' = causal_relation \cup PairsOf(kGrow')
          /\ PairsOf(kGrow') \subseteq causal_relation => causal_relation' = causal_relation
          /\ kGrow'.covers = <<>> => causal_relation' = causal_relation]_vars
\* C19 witness: a grow with two covers of different schemas has returned and
\* the knowledge base holds pairs of two labels
C19_Witness ==
    /\ cFn = "grow"
    /\ Cardinality(PairsOf(kGrow)) = 2
    /\ PairsOf(kGrow) \subseteq causal_relation
    /\ Cardinality({p[1] : p \in causal_relation}) = 2

\* C20: after any sequence of grow calls, causes(v) returns exactly one
\* candidate for each label stored with the schema of v, made of the state of
\* v[0], the label and the parameters of v in order; k labels stored with the
\* schema give k candidates, and no stored schema gives the empty set.
C20_KbCausesReturnsLabelsOfSchema ==
    cFn = "kb_causes" =>
        LET params == IF Len(cV) = 1 THEN cV[1][3] ELSE cV[1][3] \o cV[2][3]
        IN  /\ ~cRet.raised
            /\ cRet.g = {<<cV[1][1], l, params>> : l \in LabelsFor(causal_relation, cV)}
            /\ Cardinality(cRet.g) = Cardinality(LabelsFor(causal_relation, cV))
            /\ (\A p \in causal_relation : p[2] # SchemaOf(cV)) => cRet.g = {}
\* C20 witness: two labels are stored with the schema of a window of two
\* invocations and causes has returned two candidates
C20_Witness ==
    /\ cFn = "kb_causes"
    /\ Len(cV) = 2
    /\ Cardinality(LabelsFor(causal_relation, cV)) = 2
    /\ Cardinality(cRet.g) = 2

\* the candidates of the labels stored in rel with the schema of a window v of
\* one or two invocations
KbExpected(rel, v) ==
    LET params == IF Len(v) = 1 THEN v[1][3] ELSE v[1][3] \o v[2][3]
    IN  {<<v[1][1], l, params>> : l \in LabelsFor(rel, v)}
HetCalled == cFn = "het_causes"

\* C21: the relation made by make_heterogenous_causes(base) returns for a
\* window v the union of kb.causes(v) and base(v): every candidate of either,
\* and no other; it raises exactly when base raises.
C21_HetIsUnionOfBoth ==
    HetCalled =>
        LET base == baxter_causes_run(cV)
        IN  /\ cRet.raised = base.raised
            /\ ~base.raised =>
                  /\ cRet.g = KbExpected(causal_relation, cV) \cup base.g
                  /\ \A c \in cRet.g : c \in kb_causes(causal_relation, cV) \/ c \in base.g
\* C21 witness: the heterogeneous relation has returned a candidate of the
\* knowledge base and a different one of the Baxter relation
C21_Witness ==
    /\ HetCalled
    /\ KbExpected(causal_relation, cV) # {}
    /\ baxter_causes(cV) # {}
    /\ KbExpected(causal_relation, cV) \cap baxter_causes(cV) = {}
    /\ Cardinality(cRet.g) >= 2

\* C22 as claimed: for a window for which the knowledge base and the base
\* relation both return a non-empty set, the heterogeneous relation returns a
\* strict superset of each.
C22_Original_StrictSupersetOfBoth ==
    (HetCalled /\ ~cRet.raised /\ KbExpected(causal_relation, cV) # {}
        /\ baxter_causes(cV) # {}) =>
        /\ KbExpected(causal_relation, cV) \subseteq cRet.g
        /\ KbExpected(causal_relation, cV) # cRet.g
        /\ baxter_causes(cV) \subseteq cRet.g
        /\ baxter_causes(cV) # cRet.g

\* C22: the heterogeneous relation returns a superset of what each source
\* returns; it is a strict superset of one source's set exactly when the
\* other source returns a candidate the first does not.
C22_SupersetStrictWhenOtherAddsCandidate ==
    (HetCalled /\ ~cRet.raised) =>
        LET kb == KbExpected(causal_relation, cV)
            base == baxter_causes(cV)
        IN  /\ kb \subseteq cRet.g
            /\ base \subseteq cRet.g
            /\ (kb # cRet.g) <=> (base \ kb # {})
            /\ (base # cRet.g) <=> (kb \ base # {})
\* C22 witness: both sources return the same single candidate and the
\* heterogeneous relation returns just it
C22_Witness ==
    /\ HetCalled /\ ~cRet.raised
    /\ KbExpected(causal_relation, cV) # {}
    /\ KbExpected(causal_relation, cV) = baxter_causes(cV)
    /\ cRet.g = baxter_causes(cV)

\* C23: a new knowledge base stores nothing; no call ever removes a stored
\* pair, and only grow changes the stored set: causes,
\* make_heterogenous_causes and a call of the heterogeneous relation leave it
\* as it is.
C23_StoredSetOnlyGrows ==
    /\ causal_relation = {}
    /\ [][/\ causal_relation \subseteq causal_relation'
          /\ cFn' # "grow" => causal_relation' = causal_relation]_vars
\* C23 witness: make_heterogenous_causes has returned for a knowledge base of
\* three pairs
C23_Witness ==
    /\ cFn = "make_heterogenous_causes"
    /\ Cardinality(causal_relation) >= 3
    /\ het_causes.made_with = causal_relation

\* C29: the heterogeneous relation reads the knowledge base when it is
\* called: it returns the candidate of every label stored with the schema of
\* the window at the time of the call, those grown after the relation was
\* made included.
C29_HetReadsKnowledgeBaseAtCallTime ==
    (HetCalled /\ ~cRet.raised) =>
        \A p \in causal_relation :
            p[2] = SchemaOf(cV) => \E c \in cRet.g : c[1] = cV[1][1] /\ c[2] = p[1]
\* C29 witness: the heterogeneous relation has returned the candidate of a
\* label that was grown after the relation was made
C29_Witness ==
    /\ HetCalled /\ ~cRet.raised
    /\ \E l \in LabelsFor(causal_relation, cV) \ LabelsFor(het_causes.made_with, cV) :
          \E c \in cRet.g : c[2] = l /\ c \notin baxter_causes(cV)

\* a window of the one invocation 'move arm and grasp' (arm, object_id) whose
\* state records a type for object_id
GraspWindow ==
    /\ cFn = "baxter_causes"
    /\ tasknames(cV) = <<"move arm and grasp">>
    /\ Len(cV[1][3]) = 2
    /\ cV[1][3][1] \in {"1", "2"}
    /\ cV[1][3][2] \in DOMAIN cV[1][1]

\* C24: for a window of the one invocation 'move arm and grasp' (arm,
\* object_id) with pre-state s, the Baxter causes returns exactly the one
\* candidate (s, 'move unobstructed object', (object_id, arm_ids[arm-1], (),
\* ())) when s records for object_id a type other than 'DockCase' and
\* 'DockDrawer', and the empty set when it records one of the two.
C24_GraspGivesMoveUnlessDockType ==
    GraspWindow =>
        LET s == cV[1][1]
            arm == cV[1][3][1]
            object_id == cV[1][3][2]
            hand == IF arm = "1" THEN "left" ELSE "right"
        IN  /\ ~cRet.raised
            /\ s[object_id] \notin {"DockCase", "DockDrawer"} =>
                  cRet.g = {<<s, "move unobstructed object",
                              <<object_id, hand, <<>>, <<>> >> >>}
            /\ s[object_id] \in {"DockCase", "DockDrawer"} => cRet.g = {}
\* C24 witness: the right arm grasps a drive and causes has returned the one
\* candidate
C24_Witness ==
    /\ GraspWindow
    /\ cV[1][3][1] = "2"
    /\ cV[1][1][cV[1][3][2]] = "Drive"
    /\ Cardinality(cRet.g) = 1

\* C25: for a window of the one invocation '!CUT-TREE' (tcrew, tree) with any
\* pre-state, mid_causes returns a set that holds CLEAR-TREE (tree), as it
\* does for the windows ('GET-TO','!CUT-TREE'), ('!CUT-TREE','REMOVE-BLOCKAGE')
\* and ('GET-TO','!CUT-TREE','REMOVE-BLOCKAGE').
C25_CutTreeAloneGivesClearTree ==
    (cFn = "mid_causes" /\ WellFormed(cV)) =>
        /\ tasknames(cV) = <<"!CUT-TREE">> =>
              <<"CLEAR-TREE", <<cV[1][3][2]>> >> \in Parents(cRet.g)
        /\ tasknames(cV) = <<"GET-TO", "!CUT-TREE">> =>
              <<"CLEAR-TREE", <<cV[2][3][2]>> >> \in Parents(cRet.g)
        /\ tasknames(cV) = <<"!CUT-TREE", "REMOVE-BLOCKAGE">> =>
              <<"CLEAR-TREE", <<cV[1][3][2]>> >> \in Parents(cRet.g)

\* C26: after a leaf !TREAT-IN-HOSPITAL person hospital is visited, the state
\* at the previous index and the appended state both hold the operator's
\* precondition ATLOC person hospital.
C26_HospitalPreconditionInPreAndPost ==
    (Visited /\ callLeaf /\ Task = "!TREAT-IN-HOSPITAL") =>
        /\ Len(states) = Len(callPre) + 1
        /\ <<"ATLOC", callOp[2], callOp[3]>> \in NewPre
        /\ <<"ATLOC", callOp[2], callOp[3]>> \in Post

\* the windows of two unordered subtasks, with the place of the first of them
UnorderedAt ==
    [pat \in {<<"SET-UP-CONES", "GET-TO">>, <<"GET-TO", "SET-UP-CONES">>,
              <<"!PAY", "!PUMP-GAS-INTO">>, <<"!PUMP-GAS-INTO", "!PAY">>,
              <<"!CALL", "!CALL">>} |-> 1]
    @@
    [pat \in {<<"SHUT-OFF-POWER", "CLEAR-TREE", "!REMOVE-WIRE", "!STRING-WIRE",
                "TURN-ON-POWER">>,
              <<"SHUT-OFF-POWER", "!REMOVE-WIRE", "CLEAR-TREE", "!STRING-WIRE",
                "TURN-ON-POWER">>} |-> 2]
\* v with the invocations at i and i+1 in each other's place
SwapAt(v, i) ==
    [k \in 1..Len(v) |-> IF k = i THEN v[i + 1] ELSE IF k = i + 1 THEN v[i] ELSE v[k]]

\* C27: for a window of a method with two unordered subtasks (block-road,
\* add-fuel, declare-curfew, repair-line with-tree), mid_causes derives the
\* same parents (task name, parameter tuple) from the window and from the
\* window with the two unordered invocations swapped.
C27_UnorderedSubtasksCommute ==
    (cFn = "mid_causes" /\ WellFormed(cV) /\ tasknames(cV) \in DOMAIN UnorderedAt) =>
        /\ ~cRet.raised
        /\ Parents(cRet.g) = Parents(mid_causes(SwapAt(cV, UnorderedAt[tasknames(cV)])))


(***************************************************************************)
(* The clean-up-hazard approximation: rule base and inference together     *)
(* (SpecTree).                                                             *)
(***************************************************************************)
\* the fact the rule of CLEAN-UP-HAZARD from to asserts
HazardFact(from, to) == <<"HAZARD-SERIOUSNESS", from, to, "VERY-HAZARDOUS">>
\* every state of sts from index i on holds fact f
HeldFrom(sts, i, f) == \A j \in i..Len(sts) : f \in sts[j][2]

\* the CLEAN-UP-HAZARD nodes of a tree whose single child is the leaf
\* ('!CALL', 'FEMA'), as <<from, to, i>> with i the position of that leaf among
\* the leaves of the plan (counted from 1); before is the number of leaves to
\* the left of the tree
RECURSIVE HazardCalls(_, _)
HazardCalls(tree, before) ==
    IF tree.leaf THEN {}
    ELSE (IF /\ tree.op[1] = "CLEAN-UP-HAZARD"
             /\ Len(tree.subs) = 1
             /\ tree.subs[1].leaf
             /\ tree.subs[1].op = <<"!CALL", "FEMA">>
          THEN {<<tree.op[2], tree.op[3], before + 1>>}
          ELSE {})
         \cup UNION {HazardCalls(tree.subs[k], before + SumLeaves(tree.subs, k - 1)) :
                        k \in 1..Len(tree.subs)}

\* the visit of an internal node CLEAN-UP-HAZARD from to leaves the fact in the
\* last state, and a hazard fact held by every state from some index on is
\* held from that index on after every later step
HazardFactStays ==
    /\ (/\ tPc = "populate"
        /\ todo # <<>>
        /\ ~Head(todo).leaf
        /\ Head(todo).op[1] = "CLEAN-UP-HAZARD") =>
           HeldFrom(states', Len(states'), HazardFact(Head(todo).op[2], Head(todo).op[3]))
    /\ \A i \in 1..Len(states) :
           \A f \in {g \in states[i][2] : g[1] = "HAZARD-SERIOUSNESS"} :
               HeldFrom(states, i, f) => HeldFrom(states', i, f)

\* the window of the !CALL under each such node yields the node's invocation
HazardCallExplained ==
    tPc = "done" =>
        \A h \in HazardCalls(plan_tree, 0) :
            /\ ~mid_causes_run(<<out.w[h[3]]>>).raised
            /\ <<"CLEAN-UP-HAZARD", <<h[1], h[2]>>>> \in Parents(mid_causes(<<out.w[h[3]]>>))

\* C28: whenever populate_tree_states visits an internal node
\* CLEAN-UP-HAZARD(from, to), whatever its children, the state that is last at
\* that moment and every state appended afterwards contain
\* ('HAZARD-SERIOUSNESS', from, to, 'VERY-HAZARDOUS'); and for a plan whose
\* CLEAN-UP-HAZARD(from, to) node has the single child ('!CALL', 'FEMA'),
\* mid_causes applied to the one-element window preprocess_plan builds for that
\* !CALL returns a set containing CLEAN-UP-HAZARD(from, to).
C28_HazardFactReachesCallWindow ==
    [][HazardFactStays]_vars /\ []HazardCallExplained


(***************************************************************************)
(* Top-level and mid-level tasks (SpecCauses).                             *)
(***************************************************************************)
\* the task names of a set of candidates
NamesOf(g) == {c[2] : c \in g}
\* the window holds an invocation of a top-level task
HasTopLevel(v) == \E i \in 1..Len(v) : v[i][2] \in TopLevelTasks

\* C30: the parent task names top_causes returns are the top-level names and
\* mid_causes returns none of them, so the two sets are disjoint; no branch of
\* either table matches a window that contains an invocation of a top-level
\* task, and mid_causes, top_causes and causes return the empty set for every
\* such window.
C30_TopLevelTasksAreTerminal ==
    /\ (cFn = "top_causes" /\ ~cRet.raised) => NamesOf(cRet.g) \subseteq TopLevelTasks
    /\ (cFn = "mid_causes" /\ ~cRet.raised) => NamesOf(cRet.g) \cap TopLevelTasks = {}
    /\ (cFn \in MonroeCalls /\ HasTopLevel(cV)) => (~cRet.raised /\ cRet.g = {})

C30_Witness ==
    /\ cFn = "causes"
    /\ tasknames(cV) = <<"GET-TO", "GET-TO", "SET-UP-SHELTER">>
    /\ cV[1][3] = <<"SLEADER1", "l1">>
    /\ cV[2][3] = <<"FOOD1", "l1">>
    /\ cRet.g = {}

====
